---------------------------- MODULE Spec2Model ----------------------------
(***************************************************************************)
(* Model of devtools-mcp:                                                  *)
(*   - DevServerTool (src/src/tools/dev-server.ts): the process registry,  *)
(*     its lifecycle operations, the per-entry log buffer and the state    *)
(*     file;                                                               *)
(*   - LogManager (src/unnamed/part_000): the browser log store.           *)
(*                                                                         *)
(* The supervisor runs on the Node.js event loop.  One action of the model *)
(* is one callback of that loop (a request handler up to its first await,  *)
(* a timer callback together with the promise continuations it releases,   *)
(* a child-process event, the check phase that runs the queued             *)
(* setImmediate callbacks).  Time is counted in ticks of 500 ms.           *)
(***************************************************************************)
EXTENDS Integers, Sequences, FiniteSets, TLC

(***************************************************************************)
(* Bounds of the model.                                                    *)
(***************************************************************************)
MaxProcs   == 2    \* process ids: children of earlier supervisors and spawns
MaxCalls   == 3    \* requests (start, stop, restart, list, check, logs, cleanup) over a run of Spec
RegCalls   == 2    \* the same, over a run of SpecReg
RegReloads == 1    \* supervisor restarts over a run of SpecReg
BufExtra   == 3    \* chunks emitted beyond the buffer capacity in SpecBuf
BufQueue   == 3    \* chunks that arrive before the queued callbacks run
StoreAdds  == 5    \* addLog calls over a run of SpecStore

\* The caps of the log store, scaled down from 1000 and 5000
\* (unnamed/part_000:6-7) so that a run can go past them.
maxLogsPerPort == 2
maxTotalLogs   == 4

Names    == {"web", "api"}
StartArgs ==
  { [command |-> "npm run dev", port |-> 3000, cwd |-> "/app"],
    [command |-> "sleep 100",   port |-> 3001, cwd |-> "/srv"] }

\* a start whose executable path is longer than a log line may be
LongCommand == "/opt/<1200 characters>/serve --watch"
LongArgs == { [command |-> LongCommand, port |-> 3000, cwd |-> "/app"] }

\* the default limit the description of get_browser_logs announces (100), on
\* the scale of the store's caps: below maxLogsPerPort (1000 in the code)
DefaultLimit == 1        \* system.ts:283

(***************************************************************************)
(* Program constants.                                                      *)
(***************************************************************************)
maxLogLines    == 100   \* dev-server.ts:32
maxLogLength   == 1000  \* dev-server.ts:33
SavedLogLines  == 10    \* dev-server.ts:633  logs.slice(-10)
CheckTicks     == 1     \* dev-server.ts:301  500 ms
TimeoutTicks   == 4     \* dev-server.ts:287  2000 ms
GraceTicks     == 4     \* dev-server.ts:365  2000 ms
SettleTicks    == 2     \* dev-server.ts:536  1000 ms

VARIABLES
  servers,    \* Map<string, DevServer>: name -> id of the entry object, 0 = absent
  ent,        \* the DevServer objects, by id (an object lives on in closures
              \* after the registry has dropped it)
  os,         \* OS process table: pid -> "none" | "alive" | "dead" | "reused"
              \* ("reused": the child is gone and the pid is another process's)
  calls,      \* async operations suspended at an await, in timer-creation order
  imm,        \* setImmediate queue and whether the poll phase has begun
  stateFile,  \* devtools-mcp-servers.json: what kind of text it holds and the
              \* descriptors written in it
  kills,      \* per entry object: the signals sent through its handle
  ret,        \* per entry object: how the start that created it returned
  nspawn, ncalls, nchunks, nreloads,   \* counters
  lim,        \* the budgets of the run: requests, chunks, supervisor restarts
  early,      \* entry objects whose process exited while their start waited
  logManager, \* the browser log store: its groups and its id counter
  ext,        \* the browser extension's background worker: its retry buffer,
              \* its online flag, the batches being sent, what was delivered
  spawnEnv,   \* per pid: the environment overrides spawn merged over
              \* process.env for it (as a set of NAME=value strings)
  last        \* the last request issued or response returned

vars == <<servers, ent, os, calls, imm, stateFile, kills, ret,
          nspawn, ncalls, nchunks, nreloads, lim, early, logManager, ext, spawnEnv, last>>

Ids  == 1..MaxProcs
Null == [status |-> "none"]

(***************************************************************************)
(* Sequence helpers.                                                       *)
(***************************************************************************)
\* Array.prototype.slice(-k)
SliceLast(s, k) ==
  IF Len(s) <= k THEN s ELSE SubSeq(s, Len(s) - k + 1, Len(s))

RemoveAt(s, i) == SubSeq(s, 1, i - 1) \o SubSeq(s, i + 1, Len(s))

(***************************************************************************)
(* Process handles.                                                        *)
(* A live handle is the ChildProcess returned by spawn: `open` says that   *)
(* the libuv handle still exists (no exit event yet); pid = 0 stands for   *)
(* an undefined pid (the spawn failed).  A mock handle is the object built *)
(* by attachToExistingProcess.                                             *)
(***************************************************************************)
LiveHandle(pid, ok) ==
  [kind |-> "live", pid |-> pid, killed |-> FALSE,
   exitCode |-> IF ok THEN "null" ELSE "set", open |-> ok]

attachToExistingProcess(pid) ==
  [kind |-> "mock", pid |-> pid, killed |-> FALSE,
   exitCode |-> "null", open |-> FALSE]

\* process.kill(pid, sig): succeeds iff the pid exists
PidExists(O, pid) == pid \in DOMAIN O /\ O[pid] \in {"alive", "reused"}

\* handle.kill(sig): TRUE iff the signal was delivered
KillResult(h, O) ==
  IF h.kind = "live" THEN h.open ELSE PidExists(O, h.pid)

\* ChildProcess.kill sets `killed` on success (also for signal 0)
AfterKill(h, O) ==
  IF h.kind = "live" /\ h.open THEN [h EXCEPT !.killed = TRUE] ELSE h

\* variant: a handle that was signalled counts as dead
isProcessAlive_NotKilled(h, O) ==
  IF h.pid = 0 \/ h.killed THEN FALSE ELSE KillResult(h, O)

isProcessAlive(h, O) ==
  IF h.pid = 0 THEN FALSE ELSE KillResult(h, O)


(***************************************************************************)
(* Log lines.  A line is its tag, the length of the text after the tag,    *)
(* whether the truncation marker was appended, and the signal a [STOP]     *)
(* line names.  The ISO timestamp prefix is left out (there is no wall     *)
(* clock in the model).                                                    *)
(***************************************************************************)
ChunkLens == {12, 1200}

Line(tag, len, marker, info) ==
  [tag |-> tag, len |-> len, marker |-> marker, info |-> info]

\* command.split(' ')[0].length (dev-server.ts:227)
CmdLen(command) ==
  CASE command = "npm run dev" -> 3
    [] command = "sleep 100"   -> 5
    [] OTHER                   -> 1200

\* the text of the 'error' event of a failed spawn, "spawn <cmd> ENOENT",
\* goes into the [ERROR] line as it is (dev-server.ts:272)
ErrorLen(command) == 6 + CmdLen(command) + 7

\* dev-server.ts:253-257: cut an oversized chunk and add the marker
DataLine(tag, len) ==
  IF len > maxLogLength THEN Line(tag, maxLogLength, TRUE, "")
                        ELSE Line(tag, len, FALSE, "")

\* variant: a full buffer keeps its oldest lines and drops the new one
PushLog_KeepOldest(buf, line) ==
  IF Len(buf) >= maxLogLines THEN buf ELSE Append(buf, line)

\* the buffer after push and the capacity cut
PushLog(buf, line) ==
  LET l == Append(buf, line)
  IN  IF Len(l) > maxLogLines THEN SliceLast(l, maxLogLines) ELSE l

\* addLog(serverName, log): looks the entry up by name at the time it runs
addLog(S, E, name, line) ==
  IF S[name] = 0 THEN E
  ELSE [E EXCEPT ![S[name]].logs = PushLog(@, line)]

(***************************************************************************)
(* State file.                                                             *)
(***************************************************************************)
Serialize(sv) ==
  [name |-> sv.name, pid |-> sv.h.pid, command |-> sv.command,
   port |-> sv.port, cwd |-> sv.cwd, startTime |-> sv.startTime,
   logs |-> SliceLast(sv.logs, SavedLogLines), status |-> sv.status]

\* The file is absent, holds text JSON.parse rejects ("corrupt"), holds
\* JSON that is no array ("object"), or holds an array of descriptors.
\* `descs` is what is written in it, readable or not.
File(kind, descs) == [kind |-> kind, descs |-> descs]

\* variant: a lenient reader that takes what it can from any text
Parsed_Lenient(F) == F.descs

\* existsSync, JSON.parse and the for..of of loadState: every failure is
\* caught and leaves nothing to load
Parsed(F) == IF F.kind = "array" THEN F.descs ELSE {}

\* new Date(undefined) is an Invalid Date: startTime 0
InvalidDate(sv) == sv.startTime = 0

\* saveState(): entries without a pid are skipped; toISOString() of an
\* Invalid Date throws, the catch logs a warning and the file stays as it was
Saved(S) == { n \in Names : S[n] # 0 }

SaveThrows(S, E) ==
  \E n \in Saved(S) : E[S[n]].h.pid # 0 /\ InvalidDate(E[S[n]])

saveState(S, E, F) ==
  IF SaveThrows(S, E) THEN F
  ELSE File("array", { Serialize(E[S[n]]) : n \in { m \in Saved(S) : E[S[m]].h.pid # 0 } })

\* variant: the loaded entry keeps the status the file recorded
Loaded_KeepStatus(d, O) ==
  [name |-> d.name, h |-> attachToExistingProcess(d.pid), command |-> d.command,
   port |-> d.port, cwd |-> d.cwd, startTime |-> d.startTime, logs |-> d.logs,
   status |-> d.status]

\* the DevServer object loadState builds from a descriptor
Loaded(d, O) ==
  LET h == attachToExistingProcess(d.pid)
  IN  [name |-> d.name, h |-> h, command |-> d.command, port |-> d.port,
       cwd |-> d.cwd, startTime |-> d.startTime, logs |-> d.logs,
       status |-> IF isProcessAlive(h, O) THEN "running" ELSE "stopped"]

\* the id of the object built from a descriptor: its pid, or 1 when the
\* descriptor has none (such a descriptor is alone in its file)
Slot(d) == IF d.pid # 0 THEN d.pid ELSE 1

\* loadState(): the registry and the objects of a fresh supervisor
loadServers(F) ==
  [n \in Names |-> IF \E d \in Parsed(F) : d.name = n
                   THEN Slot(CHOOSE d \in Parsed(F) : d.name = n) ELSE 0]

loadEntries(F, O) ==
  [i \in Ids |-> IF \E d \in Parsed(F) : Slot(d) = i
                 THEN Loaded(CHOOSE d \in Parsed(F) : Slot(d) = i, O) ELSE Null]

(***************************************************************************)
(* The check phase of the event loop: the queued setImmediate callbacks    *)
(* run in FIFO order.  The observers captured `name` and the `server`      *)
(* object of their own start call.                                         *)
(***************************************************************************)
\* variant: the exit observer writes its line and leaves the status alone
RunOne_ExitLogsOnly(t, S, E) ==
  CASE t.kind = "data"  -> addLog(S, E, t.name, DataLine(t.tag, t.len))
    [] t.kind = "error" ->
         [addLog(S, E, t.name, Line("ERROR", t.len, FALSE, ""))
            EXCEPT ![t.e].status = "error"]
    [] t.kind = "exit"  -> addLog(S, E, t.name, Line("EXIT", 12, FALSE, ""))

RunOne(t, S, E) ==
  CASE t.kind = "data"  -> addLog(S, E, t.name, DataLine(t.tag, t.len))
    [] t.kind = "error" ->
         [addLog(S, E, t.name, Line("ERROR", t.len, FALSE, ""))
            EXCEPT ![t.e].status = "error"]
    [] t.kind = "exit"  ->
         [addLog(S, E, t.name, Line("EXIT", 12, FALSE, ""))
            EXCEPT ![t.e].status = "stopped"]

\* variant: the check phase runs the callback queued last first
RECURSIVE RunQueue_NewestFirst(_, _, _)
RunQueue_NewestFirst(q, S, E) ==
  IF q = <<>> THEN E
  ELSE RunQueue_NewestFirst(SubSeq(q, 1, Len(q) - 1), S, RunOne(q[Len(q)], S, E))

RECURSIVE RunQueue(_, _, _)
RunQueue(q, S, E) ==
  IF q = <<>> THEN E ELSE RunQueue(Tail(q), S, RunOne(Head(q), S, E))

Task(kind, e, name, tag, len) ==
  [kind |-> kind, e |-> e, name |-> name, tag |-> tag, len |-> len]

\* an I/O callback ran: the loop is in (or past) its poll phase, so no timer
\* fires before the queued immediates have run
AfterIO(q) == [q |-> q, poll |-> q # <<>>]

\* A request or the response to one: operation, name argument, outcome
\* ("pending" while the operation is suspended), the entry object it found
\* or created and the port the response text names (0: none).
Result(op, name, res, e, port) ==
  [op |-> op, name |-> name, res |-> res, e |-> e, port |-> port]

\* executeTool (dev-server.ts:174-202): the handler runs inside try/catch;
\* what it throws comes back as the text "Error: <message>"
\* variant: no catch around the handler
executeTool_NoCatch(r) == r

executeTool(r) ==
  IF r.res = "thrown" THEN [r EXCEPT !.res = "error_text"] ELSE r

Call(op, stage, name, e, sig, cfg, chk, t) ==
  [op |-> op, stage |-> stage, name |-> name, e |-> e, sig |-> sig,
   cfg |-> cfg, chk |-> chk, t |-> t]

Active(st) == st \in {"running", "starting"}


(***************************************************************************)
(* Initial states: a freshly constructed supervisor (dev-server.ts:36-46). *)
(* The constructor runs loadState on whatever an earlier supervisor left:  *)
(* no file, or the descriptor of a server it had running as pid 1, whose   *)
(* process may have died since.                                            *)
(***************************************************************************)
LeftBehind ==
  [name |-> "web", pid |-> 1, command |-> "npm run dev", port |-> 3000,
   cwd |-> "/app", startTime |-> 1, logs |-> <<>>, status |-> "running"]

\* descriptors of another version of the file: without pid, without startTime
NoPid == [LeftBehind EXCEPT !.pid = 0]
NoStartTime == [LeftBehind EXCEPT !.startTime = 0]

\* what the constructor may find on disk
StateFiles ==
  { File("absent", {}), File("array", {LeftBehind}),
    File("corrupt", {LeftBehind}), File("object", {LeftBehind}),
    File("array", {NoPid}), File("array", {NoStartTime}) }

Constructed(F, o, L) ==
  /\ stateFile = F
  /\ os = [i \in Ids |-> IF \E d \in F.descs : d.pid = i THEN o ELSE "none"]
  /\ servers = loadServers(F)
  /\ ent = loadEntries(F, os)
  /\ calls = <<>>
  /\ imm = [q |-> <<>>, poll |-> FALSE]
  /\ kills = [i \in Ids |-> <<>>]
  /\ ret = [i \in Ids |-> "none"]
  /\ early = {}
  /\ nspawn = Cardinality(F.descs) /\ ncalls = 0 /\ nchunks = 0 /\ nreloads = 0
  /\ lim = L
  /\ logManager = [logs |-> <<>>, logIdCounter |-> 0]
  /\ ext = [logBuffer |-> <<>>, isOnline |-> TRUE, sending |-> <<>>,
            delivered |-> {}, received |-> 0]
  /\ spawnEnv = [i \in Ids |-> {}]
  /\ last = Result("load", "", "", 0, 0)

Init ==
  \E F \in {File("absent", {}), File("array", {LeftBehind})}, o \in {"alive", "dead"} :
     Constructed(F, o, [calls |-> MaxCalls, chunks |-> 0, queue |-> 0, reloads |-> 0, adds |-> 0])

(***************************************************************************)
(* startDevServer (dev-server.ts:204-302), up to `await startupPromise`.   *)
(* `ok` is whether spawn found the executable; on failure Node leaves pid  *)
(* undefined, sets a (negative) exitCode and emits 'error' on the next     *)
(* tick, which queues the error observer.  `base` is the list of suspended *)
(* calls without the caller, `io` whether the caller is an I/O callback.   *)
(***************************************************************************)
\* variant: the refusal names the port of the request
RunningPort_Requested(S, E, n, a) == a.port

\* dev-server.ts:219: the port the refusal names
RunningPort(S, E, n, a) == E[S[n]].port

\* variant: the guard lets a start through while the entry is `running`
AlreadyRunning_StartingOnly(S, E, n) == S[n] # 0 /\ E[S[n]].status = "starting"

\* variant: the guard lets a start through while the entry is still `starting`
AlreadyRunning_RunningOnly(S, E, n) == S[n] # 0 /\ E[S[n]].status = "running"

\* dev-server.ts:212-214
AlreadyRunning(S, E, n) == S[n] # 0 /\ Active(E[S[n]].status)

\* dev-server.ts:209: args.env || {}
Env(a) == IF "env" \in DOMAIN a THEN a.env ELSE {}

startDevServer(n, a, ok, op, base, io) ==
  IF AlreadyRunning(servers, ent, n)
  THEN /\ calls' = base
       /\ last' = executeTool(Result(op, n, "already_running", servers[n],
                         RunningPort(servers, ent, n, a)))
       /\ imm' = IF io THEN AfterIO(imm.q) ELSE imm
       /\ UNCHANGED <<servers, ent, os, stateFile, kills, ret, nspawn, early, spawnEnv>>
  ELSE /\ nspawn < MaxProcs
       /\ LET e == nspawn + 1
              q == IF ok THEN imm.q
                   ELSE Append(imm.q, Task("error", e, n, "ERROR", ErrorLen(a.command)))
          IN  /\ nspawn' = e
              /\ os' = [os EXCEPT ![e] = IF ok THEN "alive" ELSE "none"]
              /\ spawnEnv' = [spawnEnv EXCEPT ![e] = Env(a)]
              /\ ent' = [ent EXCEPT ![e] =
                            [name |-> n, h |-> LiveHandle(IF ok THEN e ELSE 0, ok),
                             command |-> a.command, port |-> a.port, cwd |-> a.cwd,
                             startTime |-> e, logs |-> <<>>, status |-> "starting"]]
              /\ servers' = [servers EXCEPT ![n] = e]
              /\ calls' = Append(base, Call(op, "start", n, e, "", a,
                                            CheckTicks, TimeoutTicks))
              /\ imm' = IF io THEN AfterIO(q) ELSE [imm EXCEPT !.q = q]
              /\ ret' = [ret EXCEPT ![e] = "pending"]
              /\ kills' = [kills EXCEPT ![e] = <<>>]
              /\ last' = Result(op, n, "pending", e, 0)
              /\ UNCHANGED <<stateFile, early>>

StartCall(n, a, ok) ==
  /\ ncalls < lim.calls
  /\ ncalls' = ncalls + 1
  /\ startDevServer(n, a, ok, "start", calls, TRUE)
  /\ UNCHANGED <<nchunks, nreloads, lim, ext, logManager>>

(***************************************************************************)
(* The continuation of startDevServer after the await (dev-server.ts:      *)
(* 304-331), released with `started` by one of the three resolvers.        *)
(***************************************************************************)
FinishStart(i, started, E0) ==
  LET c == calls[i]
      failed == ~started \/ E0[c.e].h.exitCode # "null"
      E == [E0 EXCEPT ![c.e].status = IF failed THEN "error" ELSE "running"]
  IN  /\ ent' = E
      /\ calls' = RemoveAt(calls, i)
      /\ stateFile' = IF failed THEN stateFile ELSE saveState(servers, E, stateFile)
      /\ ret' = [ret EXCEPT ![c.e] = IF failed THEN "failed" ELSE "ok"]
      /\ last' = executeTool(Result(c.op, c.name,
                                    IF failed THEN "failed" ELSE "started",
                                    c.e, c.cfg.port))

\* a timer of duration class d of call i may fire: it is due, the loop is in
\* its timers phase, and no timer of the same duration created earlier is due
DueFirst(i, d) ==
  /\ ~imm.poll
  /\ \A j \in 1..(i - 1) :
        ~ \/ (d = CheckTicks /\ calls[j].chk = 0)
          \/ (d # CheckTicks /\ calls[j].t = 0 /\ calls[j].chk # 0
                /\ d = (IF calls[j].stage = "settle" THEN SettleTicks ELSE TimeoutTicks))

\* the 500 ms timer (dev-server.ts:296-301)
StartCheck(i) ==
  /\ i \in DOMAIN calls
  /\ calls[i].stage = "start" /\ calls[i].chk = 0
  /\ DueFirst(i, CheckTicks)
  /\ LET h == ent[calls[i].e].h
     IN  IF ~h.killed /\ h.exitCode = "null"
         THEN FinishStart(i, TRUE, ent)
         ELSE /\ calls' = [calls EXCEPT ![i].chk = -1]
              /\ UNCHANGED <<ent, stateFile, ret, last>>
  /\ UNCHANGED <<servers, os, imm, kills, nspawn, ncalls, nchunks, nreloads,
                 lim, ext, spawnEnv, logManager, early>>

\* variant: the timeout answers only for a handle that was not signalled
StartTimeout_IfNotKilled(i) ==
  /\ i \in DOMAIN calls
  /\ calls[i].stage = "start" /\ calls[i].t = 0 /\ calls[i].chk # 0
  /\ DueFirst(i, TimeoutTicks)
  /\ ~ent[calls[i].e].h.killed
  /\ FinishStart(i, TRUE, ent)
  /\ UNCHANGED <<servers, os, imm, kills, nspawn, ncalls, nchunks, nreloads,
                 lim, ext, spawnEnv, logManager, early>>

\* the 2 s timeout (dev-server.ts:287)
StartTimeout(i) ==
  /\ i \in DOMAIN calls
  /\ calls[i].stage = "start" /\ calls[i].t = 0 /\ calls[i].chk # 0
  /\ DueFirst(i, TimeoutTicks)
  /\ FinishStart(i, TRUE, ent)
  /\ UNCHANGED <<servers, os, imm, kills, nspawn, ncalls, nchunks, nreloads,
                 lim, ext, spawnEnv, logManager, early>>


(***************************************************************************)
(* Child process events.                                                   *)
(***************************************************************************)
\* The child with pid p dies.  For a child of the running supervisor Node
\* closes the handle and emits 'exit': the observer of dev-server.ts:278
\* queues its callback and the `once` listener of line 290 resolves a
\* pending startupPromise with false.
\* The exitCode Node records stays null when a signal ended the process; a
\* process that was sent a signal is taken to die of it.
ExitCode(K) ==
  IF \E k \in DOMAIN K : K[k].delivered THEN "null" ELSE "set"

ProcExit(p) ==
  /\ os[p] = "alive"
  /\ os' = [os EXCEPT ![p] = "dead"]
  /\ IF ent[p] # Null /\ ent[p].h.kind = "live" /\ ent[p].h.open
     THEN LET E1 == [ent EXCEPT ![p].h.open = FALSE, ![p].h.exitCode = ExitCode(kills[p])]
              W  == { i \in DOMAIN calls : calls[i].stage = "start" /\ calls[i].e = p }
          IN  /\ imm' = AfterIO(Append(imm.q, Task("exit", p, ent[p].name, "EXIT", 0)))
              /\ IF W # {}
                 THEN /\ FinishStart(CHOOSE i \in W : TRUE, FALSE, E1)
                      /\ early' = early \cup {p}
                 ELSE /\ ent' = E1
                      /\ UNCHANGED <<calls, stateFile, ret, last, early>>
     ELSE /\ imm' = AfterIO(imm.q)
          /\ UNCHANGED <<ent, calls, stateFile, ret, last, early>>
  /\ UNCHANGED <<servers, kills, nspawn, ncalls, nchunks, nreloads, lim, ext, spawnEnv, logManager>>

\* a chunk arrives on stdout or stderr (dev-server.ts:251-269)
ProcData(p, tag, len) ==
  /\ nchunks < lim.chunks /\ Len(imm.q) < lim.queue
  /\ ent[p] # Null /\ ent[p].h.kind = "live" /\ ent[p].h.open
  /\ nchunks' = nchunks + 1
  /\ imm' = AfterIO(Append(imm.q, Task("data", p, ent[p].name, tag, len)))
  /\ UNCHANGED <<servers, ent, os, calls, stateFile, kills, ret,
                 nspawn, ncalls, nreloads, lim, ext, spawnEnv, logManager, early, last>>

\* the check phase: every queued setImmediate callback runs
RunImmediates ==
  /\ imm.q # <<>>
  /\ ent' = RunQueue(imm.q, servers, ent)
  /\ imm' = [q |-> <<>>, poll |-> FALSE]
  /\ UNCHANGED <<servers, os, calls, stateFile, kills, ret,
                 nspawn, ncalls, nchunks, nreloads, lim, ext, spawnEnv, logManager, early, last>>

\* 500 ms pass: nothing is queued and no timer is due
Tick ==
  /\ imm.q = <<>>
  /\ \E i \in DOMAIN calls : calls[i].t > 0
  /\ \A i \in DOMAIN calls : calls[i].chk # 0 /\ calls[i].t # 0
  /\ calls' = [i \in DOMAIN calls |->
                 [calls[i] EXCEPT !.chk = IF @ > 0 THEN @ - 1 ELSE @,
                                  !.t = IF @ > 0 THEN @ - 1 ELSE @]]
  /\ UNCHANGED <<servers, ent, os, imm, stateFile, kills, ret,
                 nspawn, ncalls, nchunks, nreloads, lim, ext, spawnEnv, logManager, early, last>>

(***************************************************************************)
(* stopDevServer (dev-server.ts:333-381).                                  *)
(***************************************************************************)
Signal(force) == IF force THEN "SIGKILL" ELSE "SIGTERM"

\* variant: the snapshot leaves the port to the default of start
Cfg_DefaultPort(sv) == [command |-> sv.command, port |-> 3000, cwd |-> sv.cwd]

\* restartDevServer: originalConfig
Cfg(sv) == [command |-> sv.command, port |-> sv.port, cwd |-> sv.cwd]

\* server.process.kill(signal) on object e: the handle and the signal record
KillEnt(E, e, O) == [E EXCEPT ![e].h = AfterKill(@, O)]
\* variant: kill() of a handle rebuilt from the state file does nothing
KillLog_LiveOnly(K, E, e, sig, O) ==
  IF E[e].h.kind = "live"
  THEN [K EXCEPT ![e] = Append(@, [sig |-> sig, delivered |-> KillResult(E[e].h, O)])]
  ELSE K

KillLog(K, E, e, sig, O) ==
  [K EXCEPT ![e] = Append(@, [sig |-> sig, delivered |-> KillResult(E[e].h, O)])]

\* variant: stop without the early return
AlreadyStopped_Never(sv) == sv.status = "gone"

\* dev-server.ts:349
AlreadyStopped(sv) == sv.status = "stopped"

\* variant: the entry is marked stopped only when the process is gone
AfterGrace_IfGone(S, E, O, c) ==
  addLog(S, IF PidExists(O, E[c.e].h.pid) THEN E
            ELSE [E EXCEPT ![c.e].status = "stopped"],
         c.name, Line("STOP", 12, FALSE, c.sig))

\* dev-server.ts:367-368: the entry objects after the grace period of call c
AfterGrace(S, E, O, c) ==
  addLog(S, [E EXCEPT ![c.e].status = "stopped"], c.name,
         Line("STOP", 12, FALSE, c.sig))

stopDevServer(n, force) ==
  /\ ncalls < lim.calls
  /\ ncalls' = ncalls + 1
  /\ imm' = AfterIO(imm.q)
  /\ LET e == servers[n]
     IN  IF e = 0
         THEN /\ last' = executeTool(Result("stop", n, "not_found", 0, 0))
              /\ UNCHANGED <<ent, calls, kills>>
         ELSE IF AlreadyStopped(ent[e])
         THEN /\ last' = executeTool(Result("stop", n, "already_stopped", e, 0))
              /\ UNCHANGED <<ent, calls, kills>>
         ELSE /\ ent' = KillEnt(ent, e, os)
              /\ kills' = KillLog(kills, ent, e, Signal(force), os)
              /\ calls' = Append(calls, Call("stop", "stop", n, e, Signal(force),
                                             Cfg(ent[e]), -1, GraceTicks))
              /\ last' = Result("stop", n, "pending", e, 0)
  /\ UNCHANGED <<servers, os, stateFile, ret, nspawn, nchunks, nreloads,
                 lim, ext, spawnEnv, logManager, early>>

\* after the grace period (dev-server.ts:367-380); inside restart the
\* settle delay follows (dev-server.ts:536)
StopTimer(i) ==
  /\ i \in DOMAIN calls
  /\ calls[i].stage = "stop" /\ calls[i].t = 0
  /\ DueFirst(i, GraceTicks)
  /\ LET c  == calls[i]
         E2 == AfterGrace(servers, ent, os, c)
     IN  /\ ent' = E2
         /\ stateFile' = saveState(servers, E2, stateFile)
         /\ IF c.op = "restart"
            THEN /\ calls' = Append(RemoveAt(calls, i),
                                    [c EXCEPT !.stage = "settle", !.t = SettleTicks])
                 /\ UNCHANGED last
            ELSE /\ calls' = RemoveAt(calls, i)
                 /\ last' = executeTool(Result("stop", c.name, "stopped", c.e, 0))
  /\ UNCHANGED <<servers, os, imm, kills, ret, nspawn, ncalls, nchunks, nreloads,
                 lim, ext, spawnEnv, logManager, early>>

(***************************************************************************)
(* restartDevServer (dev-server.ts:510-545).                               *)
(***************************************************************************)
\* variant: restart of an unknown name answers like a start that succeeded
RestartNotFound_Started(n) == Result("restart", n, "started", 0, 0)

\* dev-server.ts:514-523
RestartNotFound(n) == Result("restart", n, "not_found", 0, 0)

restartDevServer(n) ==
  /\ ncalls < lim.calls
  /\ ncalls' = ncalls + 1
  /\ imm' = AfterIO(imm.q)
  /\ LET e == servers[n]
     IN  IF e = 0
         THEN /\ last' = executeTool(RestartNotFound(n))
              /\ UNCHANGED <<ent, calls, kills>>
         ELSE IF AlreadyStopped(ent[e])
         THEN /\ calls' = Append(calls, Call("restart", "settle", n, e, "SIGTERM",
                                             Cfg(ent[e]), -1, SettleTicks))
              /\ last' = Result("restart", n, "pending", e, 0)
              /\ UNCHANGED <<ent, kills>>
         ELSE /\ ent' = KillEnt(ent, e, os)
              /\ kills' = KillLog(kills, ent, e, "SIGTERM", os)
              /\ calls' = Append(calls, Call("restart", "stop", n, e, "SIGTERM",
                                             Cfg(ent[e]), -1, GraceTicks))
              /\ last' = Result("restart", n, "pending", e, 0)
  /\ UNCHANGED <<servers, os, stateFile, ret, nspawn, nchunks, nreloads,
                 lim, ext, spawnEnv, logManager, early>>

\* the settle delay is over: startDevServer with the saved configuration
SettleTimer(i, ok) ==
  /\ i \in DOMAIN calls
  /\ calls[i].stage = "settle" /\ calls[i].t = 0
  /\ DueFirst(i, SettleTicks)
  /\ startDevServer(calls[i].name, calls[i].cfg, ok, "restart",
                    RemoveAt(calls, i), FALSE)
  /\ UNCHANGED <<ncalls, nchunks, nreloads, lim, ext, logManager>>


(***************************************************************************)
(* listRunningServers (dev-server.ts:435-480).                             *)
(***************************************************************************)
\* what the map callback leaves of one entry: the liveness probe goes
\* through handle.kill(0), a dead process under a stale status is corrected
Listed(sv, O) ==
  LET alive == isProcessAlive(sv.h, O)
      h1    == IF sv.h.pid = 0 THEN sv.h ELSE AfterKill(sv.h, O)
  IN  IF ~alive /\ Active(sv.status)
      THEN [sv EXCEPT !.h = h1, !.status = "stopped",
                      !.logs = PushLog(@, Line("STATUS", 12, FALSE, ""))]
      ELSE [sv EXCEPT !.h = h1]

\* the status list reports for name n (n has an entry)
ListedStatus(n) == Listed(ent[servers[n]], os).status

InRegistry(S, i) == \E n \in Names : S[n] = i

\* toISOString() of an Invalid Date throws inside the map callback, after
\* the status of that entry was corrected; the entries behind it in the Map
\* are not visited.  An entry with an Invalid Date was loaded from a file
\* of one descriptor, so it is the first entry of the Map.
ListThrows(S, E) == \E i \in Ids : InRegistry(S, i) /\ InvalidDate(E[i])

Visited(S, E, i) == InRegistry(S, i) /\ (ListThrows(S, E) => InvalidDate(E[i]))

\* the JSON text listRunningServers returns: per name the status, and the
\* counts `total` and `active`
ListResult(S, E, O) ==
  LET R == { n \in Names : S[n] # 0 }
  IN  [total   |-> Cardinality(R),
       active  |-> Cardinality({ n \in R : \/ Listed(E[S[n]], O).status # "stopped"
                                           \/ isProcessAlive(E[S[n]].h, O) }),
       servers |-> [n \in R |-> Listed(E[S[n]], O).status]]

listRunningServers ==
  /\ ncalls < lim.calls
  /\ ncalls' = ncalls + 1
  /\ ent' = [i \in Ids |-> IF Visited(servers, ent, i) THEN Listed(ent[i], os)
                           ELSE ent[i]]
  /\ imm' = AfterIO(imm.q)
  /\ last' = executeTool(Result("list", "", IF ListThrows(servers, ent)
                                            THEN "thrown" ELSE "listed", 0, 0))
  /\ UNCHANGED <<servers, os, calls, stateFile, kills, ret,
                 nspawn, nchunks, nreloads,
                 lim, ext, spawnEnv, logManager, early>>

(***************************************************************************)
(* checkDevServer (dev-server.ts:383-433) suspends at the port probe and   *)
(* builds its answer from the entry object when the probe has ended.       *)
(* checkPort (573-584) runs `lsof` through require(): where require is not *)
(* defined the promise rejects at once, otherwise the exec callback        *)
(* arrives later with either outcome.                                      *)
(***************************************************************************)
CheckResult(sv, open) ==
  [res |-> "status", name |-> sv.name, status |-> sv.status,
   command |-> sv.command, port |-> sv.port, cwd |-> sv.cwd,
   pid |-> sv.h.pid,
   portStatus |-> IF open THEN "open" ELSE "not_responding",
   lastLogLines |-> SliceLast(sv.logs, 5)]

checkDevServer(n) ==
  /\ ncalls < lim.calls
  /\ ncalls' = ncalls + 1
  /\ IF servers[n] = 0
     THEN /\ last' = executeTool(Result("check", n, "not_found", 0, 0))
          /\ UNCHANGED calls
     ELSE LET e == servers[n]
          IN  /\ calls' = Append(calls, Call("check", "probe", n, e, "",
                                             [port |-> ent[e].port], 0 - 1, 0 - 1))
              /\ last' = Result("check", n, "pending", e, 0)
  /\ imm' = AfterIO(imm.q)
  /\ UNCHANGED <<servers, ent, os, stateFile, kills, ret,
                 nspawn, nchunks, nreloads, lim, ext, spawnEnv, logManager, early>>

\* the probe of call i ended: the check returns its status text
checkPort(i, open) ==
  /\ calls[i].stage = "probe"
  /\ LET c == calls[i]
     IN  /\ calls' = RemoveAt(calls, i)
         /\ last' = executeTool(Result("check", c.name,
                                       CheckResult(ent[c.e], open).portStatus,
                                       c.e, c.cfg.port))
  /\ imm' = AfterIO(imm.q)
  /\ UNCHANGED <<servers, ent, os, stateFile, kills, ret,
                 nspawn, ncalls, nchunks, nreloads, lim, ext, spawnEnv, logManager, early>>

\* getServerLogs (dev-server.ts:482-508) reads the entry and changes nothing
LogsResult(n, lines) ==
  IF servers[n] = 0 THEN [res |-> "not_found"]
  ELSE IF ent[servers[n]].logs = <<>> THEN [res |-> "no_logs"]
  ELSE [res |-> "lines", text |-> SliceLast(ent[servers[n]].logs, lines)]

getServerLogs(n) ==
  /\ ncalls < lim.calls
  /\ ncalls' = ncalls + 1
  /\ last' = executeTool(Result("logs", n, LogsResult(n, 50).res, servers[n], 0))
  /\ imm' = AfterIO(imm.q)
  /\ UNCHANGED <<servers, ent, os, calls, stateFile, kills, ret,
                 nspawn, nchunks, nreloads, lim, ext, spawnEnv, logManager, early>>

\* executeTool with a tool name it does not know: the default branch throws
unknownTool ==
  /\ ncalls < lim.calls
  /\ ncalls' = ncalls + 1
  /\ last' = executeTool(Result("unknown", "", "thrown", 0, 0))
  /\ imm' = AfterIO(imm.q)
  /\ UNCHANGED <<servers, ent, os, calls, stateFile, kills, ret,
                 nspawn, nchunks, nreloads, lim, ext, spawnEnv, logManager, early>>

(***************************************************************************)
(* cleanup (dev-server.ts:676-684): the SIGINT/SIGTERM/exit handler.       *)
(***************************************************************************)
cleanup ==
  /\ ncalls < lim.calls
  /\ ncalls' = ncalls + 1
  /\ LET T == { i \in Ids : InRegistry(servers, i) /\ Active(ent[i].status) }
         E == [i \in Ids |-> IF i \in T THEN [ent[i] EXCEPT !.h = AfterKill(@, os)]
                             ELSE ent[i]]
     IN  /\ ent' = E
         /\ kills' = [i \in Ids |->
                        IF i \in T
                        THEN Append(kills[i], [sig |-> "SIGTERM",
                                               delivered |-> KillResult(ent[i].h, os)])
                        ELSE kills[i]]
         /\ stateFile' = saveState(servers, E, stateFile)
  /\ imm' = AfterIO(imm.q)
  /\ last' = Result("cleanup", "", "done", 0, 0)
  /\ UNCHANGED <<servers, os, calls, ret, nspawn, nchunks, nreloads,
                 lim, ext, spawnEnv, logManager, early>>

(***************************************************************************)
(* The supervisor process ends and a new one is constructed                *)
(* (dev-server.ts:36-46, loadState 586-618).  Suspended calls, queued      *)
(* callbacks and the ChildProcess objects die with the old process; the    *)
(* children and the state file stay.                                       *)
(***************************************************************************)
Reload ==
  /\ nreloads < lim.reloads
  /\ nreloads' = nreloads + 1
  /\ servers' = loadServers(stateFile)
  /\ ent' = loadEntries(stateFile, os)
  /\ calls' = <<>>
  /\ imm' = [q |-> <<>>, poll |-> FALSE]
  /\ kills' = [i \in Ids |-> <<>>]
  /\ ret' = [i \in Ids |-> "none"]
  /\ early' = {}
  /\ last' = Result("load", "", "", 0, 0)
  /\ UNCHANGED <<os, stateFile, nspawn, ncalls, nchunks, lim, ext, spawnEnv, logManager>>

\* the operating system gives the pid of a child that is gone to a process
\* it starts for someone else; process.kill(pid, ...) of the mock handle
\* (dev-server.ts:650) reaches whatever holds the pid
PidReused(p) ==
  /\ os[p] = "dead"
  /\ os' = [os EXCEPT ![p] = "reused"]
  /\ UNCHANGED <<servers, ent, calls, imm, stateFile, kills, ret,
                 nspawn, ncalls, nchunks, nreloads, lim, early, logManager,
                 ext, spawnEnv, last>>

Name1 == {"web"}

Next ==
  \/ \E n \in Name1, a \in StartArgs, ok \in BOOLEAN : StartCall(n, a, ok)
  \/ \E i \in DOMAIN calls : StartCheck(i)
  \/ \E i \in DOMAIN calls : StartTimeout(i)
  \/ \E p \in Ids : ProcExit(p)
  \/ RunImmediates
  \/ Tick
  \/ \E n \in Name1, force \in BOOLEAN : stopDevServer(n, force)
  \/ \E i \in DOMAIN calls : StopTimer(i)
  \/ \E n \in Name1 : restartDevServer(n)
  \/ \E i \in DOMAIN calls, ok \in BOOLEAN : SettleTimer(i, ok)
  \/ listRunningServers
  \/ \E n \in Name1 : checkDevServer(n)
  \/ \E i \in DOMAIN calls, open \in BOOLEAN : checkPort(i, open)
  \/ \E n \in Name1 : getServerLogs(n)
  \/ cleanup

Spec == Init /\ [][Next]_vars

(***************************************************************************)
(* Supervisor restarts: two names, fewer requests, and the supervisor may  *)
(* end and be constructed again over the state file it left.               *)
(***************************************************************************)
InitReg ==
  \E F \in StateFiles, o \in {"alive", "dead"} :
     Constructed(F, o, [calls |-> RegCalls, chunks |-> 0, queue |-> 0,
                      reloads |-> RegReloads, adds |-> 0])

NextReg ==
  \/ \E n \in Names, a \in StartArgs, ok \in BOOLEAN : StartCall(n, a, ok)
  \/ \E i \in DOMAIN calls : StartCheck(i)
  \/ \E i \in DOMAIN calls : StartTimeout(i)
  \/ \E p \in Ids : ProcExit(p)
  \/ RunImmediates
  \/ Tick
  \/ \E n \in Names, force \in BOOLEAN : stopDevServer(n, force)
  \/ \E i \in DOMAIN calls : StopTimer(i)
  \/ \E n \in Names : restartDevServer(n)
  \/ \E i \in DOMAIN calls, ok \in BOOLEAN : SettleTimer(i, ok)
  \/ listRunningServers
  \/ \E n \in Names : checkDevServer(n)
  \/ \E i \in DOMAIN calls, open \in BOOLEAN : checkPort(i, open)
  \/ \E n \in Names : getServerLogs(n)
  \/ unknownTool
  \/ cleanup
  \/ Reload

SpecReg == InitReg /\ [][NextReg]_vars

(***************************************************************************)
(* Supervisor restarts while the process table moves on: a child that is   *)
(* gone may leave its pid to an unrelated process.                         *)
(***************************************************************************)
InitReuse ==
  \E o \in {"alive", "dead"} :
     Constructed(File("array", {LeftBehind}), o,
                 [calls |-> RegCalls, chunks |-> 0, queue |-> 0,
                  reloads |-> RegReloads, adds |-> 0])

NextReuse ==
  \/ \E n \in Name1, a \in StartArgs, ok \in BOOLEAN : StartCall(n, a, ok)
  \/ \E i \in DOMAIN calls : StartCheck(i)
  \/ \E i \in DOMAIN calls : StartTimeout(i)
  \/ \E p \in Ids : ProcExit(p)
  \/ \E p \in Ids : PidReused(p)
  \/ RunImmediates
  \/ Tick
  \/ \E n \in Name1, force \in BOOLEAN : stopDevServer(n, force)
  \/ \E i \in DOMAIN calls : StopTimer(i)
  \/ listRunningServers
  \/ cleanup
  \/ Reload

SpecReuse == InitReuse /\ [][NextReuse]_vars

(***************************************************************************)
(* Starts that carry environment overrides (the `env` argument of          *)
(* start_dev_server), and restarts of the servers they created.            *)
(***************************************************************************)
EnvArgs ==
  { [command |-> "npm run dev", port |-> 3000, cwd |-> "/app",
     env |-> {"NODE_ENV=test"}],
    [command |-> "npm run dev", port |-> 3000, cwd |-> "/app"] }

InitEnv ==
  Constructed(File("absent", {}), "dead",
              [calls |-> MaxCalls, chunks |-> 0, queue |-> 0, reloads |-> 0, adds |-> 0])

NextEnv ==
  \/ \E n \in Name1, a \in EnvArgs, ok \in BOOLEAN : StartCall(n, a, ok)
  \/ \E i \in DOMAIN calls : StartCheck(i)
  \/ \E i \in DOMAIN calls : StartTimeout(i)
  \/ \E p \in Ids : ProcExit(p)
  \/ RunImmediates
  \/ Tick
  \/ \E n \in Name1 : restartDevServer(n)
  \/ \E i \in DOMAIN calls : StopTimer(i)
  \/ \E i \in DOMAIN calls, ok \in BOOLEAN : SettleTimer(i, ok)

SpecEnv == InitEnv /\ [][NextEnv]_vars

(***************************************************************************)
(* The supervisor under the scheduling of the Node event loop: a timer     *)
(* that is due fires, queued setImmediate callbacks run, and time passes.  *)
(* What the children do (exit, ignore a signal, fail to spawn) and which   *)
(* requests arrive stays free.  The request budget is what the process     *)
(* table of the model has room for, so no spawn waits for a free pid.      *)
(***************************************************************************)
InitLive ==
  \E F \in {File("absent", {}), File("array", {LeftBehind})}, o \in {"alive", "dead"} :
     Constructed(F, o, [calls |-> MaxProcs - Cardinality(F.descs), chunks |-> 0,
                        queue |-> 0, reloads |-> 0, adds |-> 0])

NextLive ==
  \/ \E n \in Name1, a \in StartArgs, ok \in BOOLEAN : StartCall(n, a, ok)
  \/ \E i \in DOMAIN calls : StartCheck(i)
  \/ \E i \in DOMAIN calls : StartTimeout(i)
  \/ \E p \in Ids : ProcExit(p)
  \/ RunImmediates
  \/ Tick
  \/ \E n \in Name1, force \in BOOLEAN : stopDevServer(n, force)
  \/ \E i \in DOMAIN calls : StopTimer(i)
  \/ \E n \in Name1 : restartDevServer(n)
  \/ \E i \in DOMAIN calls, ok \in BOOLEAN : SettleTimer(i, ok)
  \/ listRunningServers
  \/ cleanup

SpecLive ==
  /\ InitLive /\ [][NextLive]_vars
  /\ WF_vars(Tick)
  /\ WF_vars(RunImmediates)
  /\ WF_vars(\E i \in DOMAIN calls : StartCheck(i))
  /\ WF_vars(\E i \in DOMAIN calls : StartTimeout(i))
  /\ WF_vars(\E i \in DOMAIN calls : StopTimer(i))
  /\ WF_vars(\E i \in DOMAIN calls, ok \in BOOLEAN : SettleTimer(i, ok))

(***************************************************************************)
(* The browser log store (LogManager, unnamed/part_000).  Strings are      *)
(* sequences of tokens, the empty sequence being the empty or absent       *)
(* string; "-" and "localhost:" are tokens of their own.  The Map of       *)
(* groups is a sequence of [key, logs] in insertion order.  The id of an   *)
(* entry is the counter part of `log-<now>-<counter>`.                     *)
(***************************************************************************)
Digits == {"3000", "3001"}

\* url.match(/localhost:(\d+)/): the digits after the first "localhost:"
\* that has digits behind it, <<>> without a match
UrlPort(url) ==
  LET M == { i \in 1..(Len(url) - 1) : url[i] = "localhost:" /\ url[i + 1] \in Digits }
  IN  IF M = {} THEN <<>>
      ELSE <<url[(CHOOSE i \in M : \A j \in M : i <= j) + 1]>>

Unknown == <<"unknown">>

\* unnamed/part_000:12-31: the port and project the entry is stored with
EntryPort(d) ==
  LET p == IF d.port = <<>> /\ d.url # <<>>
           THEN (IF UrlPort(d.url) # <<>> THEN UrlPort(d.url) ELSE Unknown)
           ELSE d.port
  IN  IF p = <<>> THEN Unknown ELSE p

EntryProject(d) ==
  LET p == IF d.port = <<>> /\ d.url # <<>>
           THEN (IF UrlPort(d.url) # <<>> THEN UrlPort(d.url) ELSE Unknown)
           ELSE d.port
      j == IF d.project # <<>> THEN d.project
           ELSE IF p # <<>> THEN <<"localhost:">> \o p ELSE Unknown
  IN  j

\* `${entry.port}-${entry.project}`
PortKey(port, project) == port \o <<"-">> \o project

GroupAt(G, key) == { i \in DOMAIN G : G[i].key = key }

RECURSIVE TotalLogs(_)
TotalLogs(G) == IF G = <<>> THEN 0 ELSE Len(Head(G).logs) + TotalLogs(Tail(G))

\* Array.prototype.splice(0, k)
DropFirst(l, k) == SubSeq(l, k + 1, Len(l))

\* Math.ceil(a / b) for a >= 0 < b
CeilDiv(a, b) == (a + b - 1) \div b

\* variant: a group is cut as soon as it holds toRemovePerPort entries
enforceTotalLogLimit_CutSmall(G) ==
  IF TotalLogs(G) > maxTotalLogs
  THEN LET excess == TotalLogs(G) - maxTotalLogs
           toRemovePerPort == CeilDiv(excess, Len(G))
       IN  [i \in DOMAIN G |->
              IF Len(G[i].logs) >= toRemovePerPort
              THEN [G[i] EXCEPT !.logs = DropFirst(@, toRemovePerPort)]
              ELSE G[i]]
  ELSE G

\* enforceTotalLogLimit (unnamed/part_000:147-166)
enforceTotalLogLimit(G) ==
  IF TotalLogs(G) > maxTotalLogs
  THEN LET excess == TotalLogs(G) - maxTotalLogs
           toRemovePerPort == CeilDiv(excess, Len(G))
       IN  [i \in DOMAIN G |->
              IF Len(G[i].logs) > toRemovePerPort
              THEN [G[i] EXCEPT !.logs = DropFirst(@, toRemovePerPort)]
              ELSE G[i]]
  ELSE G

\* the groups after addLog(d) (unnamed/part_000:9-53)
AddedLogs(G, d, id) ==
  LET entry == [id |-> id, port |-> EntryPort(d), project |-> EntryProject(d),
                url |-> d.url, level |-> d.level, timestamp |-> d.timestamp,
                message |-> d.message]
      key == PortKey(entry.port, entry.project)
      G1  == IF GroupAt(G, key) = {} THEN Append(G, [key |-> key, logs |-> <<>>])
             ELSE G
      k   == CHOOSE i \in DOMAIN G1 : G1[i].key = key
      l   == Append(G1[k].logs, entry)
      l1  == IF Len(l) > maxLogsPerPort THEN DropFirst(l, Len(l) - maxLogsPerPort)
             ELSE l
  IN  enforceTotalLogLimit([G1 EXCEPT ![k].logs = l1])

LogManager_addLog(d) ==
  /\ logManager.logIdCounter < lim.adds
  /\ logManager' = [logs |-> AddedLogs(logManager.logs, d, logManager.logIdCounter),
                    logIdCounter |-> logManager.logIdCounter + 1]
  /\ UNCHANGED <<servers, ent, os, calls, imm, stateFile, kills, ret,
                 nspawn, ncalls, nchunks, nreloads, lim, ext, spawnEnv, early, last>>

\* key.split('-', 2): the pieces between the "-" tokens, the first two kept
RECURSIVE Pieces(_)
Pieces(k) ==
  IF \E i \in DOMAIN k : k[i] = "-"
  THEN LET c == CHOOSE i \in DOMAIN k : k[i] = "-" /\ \A j \in 1..(i - 1) : k[j] # "-"
       IN  <<SubSeq(k, 1, c - 1)>> \o Pieces(SubSeq(k, c + 1, Len(k)))
  ELSE <<k>>

Split2(k) == SubSeq(Pieces(k), 1, 2)

RECURSIVE Keep(_, _, _)
Keep(G, port, project) ==
  IF G = <<>> THEN <<>>
  ELSE LET sp == Split2(Head(G).key)
           hit == \/ (port # <<>> /\ sp[1] = port)
                  \/ (project # <<>> /\ Len(sp) > 1 /\ sp[2] = project)
       IN  (IF hit THEN <<>> ELSE <<Head(G)>>) \o Keep(Tail(G), port, project)

\* the groups after clearLogs(port?, project?) (unnamed/part_000:103-118)
ClearedLogs(G, port, project) ==
  IF port # <<>> \/ project # <<>> THEN Keep(G, port, project) ELSE <<>>

LogManager_clearLogs(port, project) ==
  /\ logManager.logs # <<>>
  /\ logManager' = [logManager EXCEPT !.logs = ClearedLogs(@, port, project)]
  /\ UNCHANGED <<servers, ent, os, calls, imm, stateFile, kills, ret,
                 nspawn, ncalls, nchunks, nreloads, lim, ext, spawnEnv, early, last>>

(***************************************************************************)
(* getLogs (unnamed/part_000:55-101).  An optional field of the filter is  *)
(* <<>> when absent and <<v>> when it carries v; port and project are      *)
(* strings, absent or empty when <<>>.                                     *)
(***************************************************************************)
None == <<>>
Some(v) == <<v>>

\* unnamed/part_000:62-78: the groups whose split key passes the filter
RECURSIVE Collected(_, _)
Collected(G, f) ==
  IF G = <<>> THEN <<>>
  ELSE LET sp   == Split2(Head(G).key)
           skip == \/ (f.port # <<>> /\ sp[1] # f.port)
                   \/ (f.project # <<>> /\ (Len(sp) < 2 \/ sp[2] # f.project))
       IN  (IF skip THEN <<>> ELSE Head(G).logs) \o Collected(Tail(G), f)

\* the largest timestamp a log entry carries here
MaxTime == 2

\* allLogs.sort((a, b) => b.timestamp - a.timestamp): a stable sort,
\* entries of equal timestamp keep their order
RECURSIVE NewestFirst(_, _)
NewestFirst(l, t) ==
  IF t < 0 THEN <<>>
  ELSE SelectSeq(l, LAMBDA e : e.timestamp = t) \o NewestFirst(l, t - 1)

getLogs(G, f) ==
  LET allLogs == Collected(G, f)
      byLevel == IF f.level # None /\ Len(f.level[1]) > 0
                 THEN SelectSeq(allLogs,
                                LAMBDA e : \E i \in DOMAIN f.level[1] : f.level[1][i] = e.level)
                 ELSE allLogs
      byTime  == IF f.timeRange # None
                 THEN SelectSeq(byLevel,
                                LAMBDA e : /\ e.timestamp >= f.timeRange[1].start
                                           /\ e.timestamp <= f.timeRange[1].end)
                 ELSE byLevel
      sorted  == NewestFirst(byTime, MaxTime)
  IN  IF f.limit # None /\ f.limit[1] # 0
      THEN SubSeq(sorted, 1, IF f.limit[1] < Len(sorted) THEN f.limit[1] ELSE Len(sorted))
      ELSE sorted

\* what an operation on the log store answered
StoreResult(op, res, arg, out) ==
  [op |-> op, name |-> "", res |-> res, e |-> 0, port |-> 0, arg |-> arg, out |-> out]

LogManager_getLogs(f) ==
  /\ last' = StoreResult("getLogs", "ok", f, getLogs(logManager.logs, f))
  /\ UNCHANGED <<servers, ent, os, calls, imm, stateFile, kills, ret,
                 nspawn, ncalls, nchunks, nreloads, lim, ext, spawnEnv, early, logManager>>

(***************************************************************************)
(* POST /api/browser-logs (http-server.ts:22-61).  A body names the fields *)
(* it leaves out in `missing`; a field it carries may still be "" or 0.    *)
(***************************************************************************)
Required == {"timestamp", "level", "message", "url"}

\* !logData.f
Falsy(b, f) ==
  \/ f \in b.missing
  \/ CASE f = "timestamp" -> b.timestamp = 0
       [] f = "level"     -> b.level = ""
       [] f = "message"   -> b.message = ""
       [] OTHER           -> b.url = <<>>

Rejected(b) == \E f \in Required : Falsy(b, f)

PostBrowserLogs(b) ==
  /\ logManager.logIdCounter < lim.adds
  /\ IF Rejected(b)
     THEN /\ last' = StoreResult("post", "400", b, <<>>)
          /\ UNCHANGED logManager
     ELSE /\ logManager' = [logs |-> AddedLogs(logManager.logs, b, logManager.logIdCounter),
                            logIdCounter |-> logManager.logIdCounter + 1]
          /\ last' = StoreResult("post", "200", b, <<logManager.logIdCounter>>)
  /\ UNCHANGED <<servers, ent, os, calls, imm, stateFile, kills, ret,
                 nspawn, ncalls, nchunks, nreloads, lim, ext, spawnEnv, early>>

(***************************************************************************)
(* get_browser_logs (system.ts:334-383) and the route it calls,            *)
(* GET /api/browser-logs (http-server.ts:64-103).                          *)
(***************************************************************************)
\* Number.prototype.toString and parseInt on the numbers in use
toString(n) == CASE n = 0 -> "0" [] n = 1 -> "1" [] n = 2 -> "2" [] OTHER -> "3"
parseInt(t) == CASE t = "0" -> 0 [] t = "1" -> 1 [] t = "2" -> 2 [] OTHER -> 3

\* level.join(',')
RECURSIVE Join(_)
Join(l) ==
  IF l = <<>> THEN <<>>
  ELSE IF Len(l) = 1 THEN l
  ELSE <<Head(l), ",">> \o Join(Tail(l))

\* (level as string).split(',')
SplitLevels(t) == SelectSeq(t, LAMBDA x : x # ",")

\* system.ts:339-348: the query string, "" for a parameter that is not set
Query(params) ==
  LET f == params.filter
  IN  [port    |-> f.port,
       project |-> f.project,
       level   |-> IF f.level # None THEN Join(f.level[1]) ELSE <<>>,
       limit   |-> IF f.limit # None /\ f.limit[1] # 0 THEN toString(f.limit[1]) ELSE "",
       start   |-> IF f.timeRange # None THEN toString(f.timeRange[1].start) ELSE "",
       end     |-> IF f.timeRange # None THEN toString(f.timeRange[1].end) ELSE "",
       clear   |-> IF params.clear THEN "true" ELSE ""]

\* http-server.ts:71-82
QueryFilter(q) ==
  [port      |-> q.port,
   project   |-> q.project,
   level     |-> IF q.level # <<>> THEN Some(SplitLevels(q.level)) ELSE None,
   limit     |-> IF q.limit # "" THEN Some(parseInt(q.limit)) ELSE None,
   timeRange |-> IF q.start # "" /\ q.end # ""
                 THEN Some([start |-> parseInt(q.start), end |-> parseInt(q.end)])
                 ELSE None]

\* http-server.ts:85-98: the logs the route answers with and the groups it leaves
GetRoute(G, q) ==
  LET filter == QueryFilter(q)
  IN  [logs  |-> getLogs(G, filter),
       store |-> IF q.clear = "true" THEN ClearedLogs(G, filter.port, filter.project)
                 ELSE G]

\* `up` is whether the fetch reaches the log server; when it does not the
\* tool answers from the store directly (system.ts:367-380)
get_browser_logs(params, up) ==
  /\ IF up
     THEN LET r == GetRoute(logManager.logs, Query(params))
          IN  /\ last' = StoreResult("get_browser_logs", "logs", params, r.logs)
              /\ logManager' = [logManager EXCEPT !.logs = r.store]
     ELSE /\ last' = StoreResult("get_browser_logs", "fallbackLogs", params,
                                 getLogs(logManager.logs, params.filter))
          /\ UNCHANGED logManager
  /\ UNCHANGED <<servers, ent, os, calls, imm, stateFile, kills, ret,
                 nspawn, ncalls, nchunks, nreloads, lim, ext, spawnEnv, early>>

\* clear_browser_logs (system.ts:425-440)
clear_browser_logs(port, project) ==
  /\ logManager' = [logManager EXCEPT !.logs = ClearedLogs(@, port, project)]
  /\ last' = StoreResult("clear_browser_logs", "success", [port |-> port, project |-> project], <<>>)
  /\ UNCHANGED <<servers, ent, os, calls, imm, stateFile, kills, ret,
                 nspawn, ncalls, nchunks, nreloads, lim, ext, spawnEnv, early>>

LogPorts    == {<<>>, <<"3000">>, <<"3001">>}
LogProjects == {<<>>, <<"a">>}
LogUrls     == {<<"http://", "localhost:", "3000", "/x">>, <<"https://", "example.com", "/">>}

InitStore ==
  Constructed(File("absent", {}), "dead",
              [calls |-> 0, chunks |-> 0, queue |-> 0, reloads |-> 0, adds |-> StoreAdds])

NextStore ==
  \/ \E p \in LogPorts, j \in LogProjects, u \in LogUrls :
        LogManager_addLog([port |-> p, project |-> j, url |-> u, level |-> "log",
                           timestamp |-> 1, message |-> "m"])
  \/ \E p \in LogPorts, j \in LogProjects : LogManager_clearLogs(p, j)

SpecStore == InitStore /\ [][NextStore]_vars

(***************************************************************************)
(* The log store with its readers: a few entries whose ports and projects  *)
(* may contain "-", added through the ingestion route, the only caller of  *)
(* addLog, then read through getLogs and get_browser_logs and cleared.     *)
(***************************************************************************)
LogAdds == 2

HyphenPorts    == {<<>>, <<"3000">>, <<"3000", "-", "a">>}
HyphenProjects == {<<>>, <<"b">>, <<"a", "-", "b">>}
LocalUrl       == <<"http://", "localhost:", "3000", "/x">>
OtherUrl       == <<"https://", "example.com", "/">>

\* what the browser sends: a page on localhost under any port and project,
\* a page elsewhere without either; an error is later than a log
LogData ==
  { d \in [port : HyphenPorts, project : HyphenProjects, url : {LocalUrl, OtherUrl},
           level : {"log", "error"}, timestamp : {1, 2}, message : {"m"},
           missing : {{}}] :
      /\ d.url = OtherUrl => d.port = <<>> /\ d.project = <<>>
      /\ d.level = "error" <=> d.timestamp = 2 }

\* bodies that leave a required field out, or carry 0 or "" in it
Partial ==
  [port : {<<>>}, project : {<<>>}, url : {LocalUrl}, level : {"log"},
   timestamp : {0, 1}, message : {"", "m"},
   missing : {{}} \cup { {f} : f \in Required }]

Bodies == LogData \cup Partial

Filters ==
  { f \in [port : {<<>>, <<"3000">>}, project : {<<>>, <<"a", "-", "b">>},
           level : {None, Some(<<"error">>)},
           timeRange : {None, Some([start |-> 2, end |-> 2])},
           limit : {None, Some(0), Some(1)}] :
      f.level = None \/ f.timeRange = None }

ToolFilters ==
  [port : {<<>>}, project : {<<>>},
   level : {None, Some(<<>>), Some(<<"error">>)},
   timeRange : {None, Some([start |-> 2, end |-> 2])},
   limit : {None, Some(1)}]

InitLogs ==
  Constructed(File("absent", {}), "dead",
              [calls |-> 0, chunks |-> 0, queue |-> 0, reloads |-> 0, adds |-> LogAdds])

NextLogs ==
  \/ \E b \in Bodies : PostBrowserLogs(b)
  \/ \E f \in Filters : LogManager_getLogs(f)
  \/ \E f \in ToolFilters, clear \in BOOLEAN, up \in BOOLEAN :
        (up \/ ~clear) /\ get_browser_logs([filter |-> f, clear |-> clear], up)
  \/ \E p \in {<<>>, <<"3000">>}, j \in HyphenProjects : clear_browser_logs(p, j)

SpecLogs == InitLogs /\ [][NextLogs]_vars

(***************************************************************************)
(* One server that writes more chunks than its buffer holds.  The k-th     *)
(* chunk is k characters long and comes from stdout or stderr in turn, so  *)
(* that every appended line is told from every other.                      *)
(***************************************************************************)
ChunkTag(k) == IF k % 2 = 1 THEN "STDOUT" ELSE "STDERR"

InitBuf ==
  Constructed(File("absent", {}), "dead",
              [calls |-> 1, chunks |-> maxLogLines + BufExtra, queue |-> BufQueue,
               reloads |-> 0, adds |-> 0])

NextBuf ==
  \/ \E a \in StartArgs : StartCall("web", a, TRUE)
  \/ \E i \in DOMAIN calls : StartCheck(i)
  \/ \E p \in Ids : ProcData(p, ChunkTag(nchunks + 1), nchunks + 1)
  \/ RunImmediates
  \/ Tick

SpecBuf == InitBuf /\ [][NextBuf]_vars

(***************************************************************************)
(* The extension's background worker (extension/src/background.js).  A log *)
(* is the number of its arrival; `sending` holds, per running              *)
(* sendLogsToServer, the logs of its batch from the one whose POST is      *)
(* awaited on.                                                             *)
(***************************************************************************)
BATCH_SIZE == 2     \* background.js:4, on the scale of ExtLogs
ExtLogs    == 4

\* processLogBuffer up to the first await (background.js:54-59, 22-28)
processLogBuffer(x) ==
  IF x.logBuffer = <<>> THEN x
  ELSE LET k          == IF Len(x.logBuffer) < BATCH_SIZE THEN Len(x.logBuffer)
                         ELSE BATCH_SIZE
           logsToSend == SubSeq(x.logBuffer, 1, k)
           rest       == SubSeq(x.logBuffer, k + 1, Len(x.logBuffer))
       IN  IF ~x.isOnline
           THEN [x EXCEPT !.logBuffer = rest]
           ELSE [x EXCEPT !.logBuffer = rest, !.sending = Append(@, logsToSend)]

\* chrome.runtime.onMessage: a console_log message arrives (background.js:62-84)
onMessage ==
  /\ ext.received < ExtLogs
  /\ LET x == [ext EXCEPT !.received = @ + 1, !.logBuffer = Append(@, ext.received + 1)]
     IN  ext' = IF Len(x.logBuffer) >= BATCH_SIZE THEN processLogBuffer(x) ELSE x
  /\ UNCHANGED <<servers, ent, os, calls, imm, stateFile, kills, ret,
                 nspawn, ncalls, nchunks, nreloads, lim, early, logManager,
                 spawnEnv, last>>

\* setInterval(processLogBuffer, BATCH_INTERVAL) fires (background.js:102)
BatchTimer ==
  /\ ext.logBuffer # <<>>
  /\ ext' = processLogBuffer(ext)
  /\ UNCHANGED <<servers, ent, os, calls, imm, stateFile, kills, ret,
                 nspawn, ncalls, nchunks, nreloads, lim, early, logManager,
                 spawnEnv, last>>

\* the POST the i-th running sendLogsToServer awaits is settled: answered
\* 2xx ("ok"), answered otherwise ("refused"), or fetch threw ("failed");
\* the loop goes on to the next log of the batch (background.js:25-50)
PostSettled(i, outcome) ==
  /\ i \in DOMAIN ext.sending
  /\ LET log  == Head(ext.sending[i])
         left == Tail(ext.sending[i])
         x    == CASE outcome = "ok"      -> [ext EXCEPT !.delivered = @ \cup {log}]
                   [] outcome = "refused" -> [ext EXCEPT !.logBuffer = Append(@, log)]
                   [] OTHER               -> [ext EXCEPT !.logBuffer = Append(@, log),
                                                         !.isOnline = FALSE]
     IN  ext' = [x EXCEPT !.sending = IF left = <<>> THEN RemoveAt(@, i)
                                      ELSE [@ EXCEPT ![i] = left]]
  /\ UNCHANGED <<servers, ent, os, calls, imm, stateFile, kills, ret,
                 nspawn, ncalls, nchunks, nreloads, lim, early, logManager,
                 spawnEnv, last>>

\* checkServerStatus has its answer (background.js:9-19)
checkServerStatus(ok) ==
  /\ ext' = [ext EXCEPT !.isOnline = ok]
  /\ UNCHANGED <<servers, ent, os, calls, imm, stateFile, kills, ret,
                 nspawn, ncalls, nchunks, nreloads, lim, early, logManager,
                 spawnEnv, last>>

InitExt ==
  Constructed(File("absent", {}), "dead",
              [calls |-> 0, chunks |-> 0, queue |-> 0, reloads |-> 0, adds |-> 0])

NextExt ==
  \/ onMessage
  \/ BatchTimer
  \/ \E i \in DOMAIN ext.sending, outcome \in {"ok", "refused", "failed"} :
        PostSettled(i, outcome)
  \/ \E ok \in BOOLEAN : checkServerStatus(ok)

SpecExt == InitExt /\ [][NextExt]_vars

(***************************************************************************)
(* The same stream of numbered chunks, read while it arrives: logs, check  *)
(* and list run between the arrival of a chunk and its deferred append.    *)
(***************************************************************************)
ReadCalls == 3

InitRead ==
  Constructed(File("absent", {}), "dead",
              [calls |-> ReadCalls, chunks |-> maxLogLines + BufExtra, queue |-> BufQueue,
               reloads |-> 0, adds |-> 0])

NextRead ==
  \/ \E a \in StartArgs : StartCall("web", a, TRUE)
  \/ \E i \in DOMAIN calls : StartCheck(i)
  \/ \E p \in Ids : ProcData(p, ChunkTag(nchunks + 1), nchunks + 1)
  \/ RunImmediates
  \/ Tick
  \/ getServerLogs("web")
  \/ checkDevServer("web")
  \/ \E i \in DOMAIN calls, open \in BOOLEAN : checkPort(i, open)
  \/ listRunningServers

SpecRead == InitRead /\ [][NextRead]_vars

(***************************************************************************)
(* One or two starts, of a short or a long command, whose spawn may fail;  *)
(* the child writes short and oversized chunks; stop, list and the exit    *)
(* add their lines: every source of a buffer line takes part.              *)
(***************************************************************************)
LineCalls  == 2
LineChunks == 2

InitLines ==
  Constructed(File("absent", {}), "dead",
              [calls |-> LineCalls, chunks |-> LineChunks, queue |-> LineChunks,
               reloads |-> 0, adds |-> 0])

NextLines ==
  \/ \E a \in StartArgs \cup LongArgs, ok \in BOOLEAN : StartCall("web", a, ok)
  \/ \E i \in DOMAIN calls : StartCheck(i)
  \/ \E i \in DOMAIN calls : StartTimeout(i)
  \/ \E p \in Ids, tag \in {"STDOUT", "STDERR"}, len \in ChunkLens : ProcData(p, tag, len)
  \/ \E p \in Ids : ProcExit(p)
  \/ RunImmediates
  \/ Tick
  \/ \E force \in BOOLEAN : stopDevServer("web", force)
  \/ \E i \in DOMAIN calls : StopTimer(i)
  \/ listRunningServers

SpecLines == InitLines /\ [][NextLines]_vars

(***************************************************************************)
(* Properties of the process supervisor, checked under Spec.               *)
(***************************************************************************)
\* the status a name has in the registry
NameStatus(S, E, n) == IF S[n] = 0 THEN "absent" ELSE E[S[n]].status

\* a queued observer callback still refers to entry object e
Pending(e) == \E k \in DOMAIN imm.q : imm.q[k].e = e

\* nothing but the start itself has acted on the entry object e: no signal
\* was sent to it and the name still maps to it
Untouched(e) == kills[e] = <<>> /\ servers[ent[e].name] = e

\* C1: a start whose process exits within the confirmation window reports
\* failure, the entry is never `running`, and once the observers have run
\* (and nothing else acted on the name) its status is `error`.
C1_EarlyExitEndsInError ==
  \A e \in Ids :
     (e \in early /\ ret[e] # "pending") =>
        /\ ret[e] = "failed"
        /\ ent[e].status # "running"
        /\ (~Pending(e) /\ Untouched(e)) => ent[e].status = "error"

\* at most one entry object of a name is starting or running
OneActivePerName(E) ==
  \A e1, e2 \in Ids :
     (e1 # e2 /\ Active(E[e1].status) /\ Active(E[e2].status))
        => E[e1].name # E[e2].name

\* C2: whatever the interleaving of start calls for one name, a process is
\* spawned under a name only while the name has no starting or running
\* entry, the spawn replaces the entry of that name only, and no two entry
\* objects of one name are starting or running at once.
C2_ConcurrentStartsSpawnOnce ==
  [][ /\ nspawn' > nspawn =>
           \E n \in Names :
              /\ servers'[n] = nspawn'
              /\ ~Active(NameStatus(servers, ent, n))
              /\ \A m \in Names \ {n} : servers'[m] = servers[m]
      /\ nspawn' = nspawn => servers' = servers
      /\ OneActivePerName(ent') ]_vars

\* a start was refused while an earlier start of the same name was still
\* waiting for its confirmation
C2_Witness ==
  /\ last.op = "start" /\ last.res = "already_running"
  /\ \E i \in DOMAIN calls :
        calls[i].stage = "start" /\ calls[i].name = last.name

\* the status changes the lifecycle description lists
ListedChanges ==
  { <<"starting", "running">>, <<"starting", "error">>, <<"running", "stopped">>,
    <<"running", "error">>, <<"stopped", "starting">>, <<"error", "starting">> }

\* further changes the operations make: stop and the list probe mark a
\* starting entry or one in error stopped, the exit observer marks an entry
\* in error stopped, the error observer and the continuation of a failed
\* start mark a stopped entry as in error
FurtherChanges ==
  { <<"starting", "stopped">>, <<"error", "stopped">>, <<"stopped", "error">> }

\* every change of the status under a name in this step is in the set C; a
\* name gets status `starting` only by a spawn that puts a new entry under it
ChangesWithin(C) ==
  \A n \in Names :
     LET a == NameStatus(servers, ent, n)
         b == NameStatus(servers', ent', n)
     IN  /\ (a # b /\ a # "absent") => <<a, b>> \in C
         /\ (a # b /\ a = "absent") => b = "starting"
         /\ (a # b /\ b = "starting") => (nspawn' > nspawn /\ servers'[n] = nspawn')

\* C4 as stated: the status under a name changes only along the six listed
\* transitions.
C4_OnlyListedChanges == [][ ChangesWithin(ListedChanges) ]_vars

\* C4: the status under a name changes only along the six listed
\* transitions or starting->stopped, error->stopped, stopped->error; it
\* becomes `running` only from `starting`, and `starting` only from
\* `stopped`, `error` or no entry, through a new start under that name.
C4_StatusChanges == [][ ChangesWithin(ListedChanges \cup FurtherChanges) ]_vars

\* a stop has marked an entry stopped that a failed start had left in error
C4_Witness ==
  \E e \in Ids :
     /\ ret[e] = "failed" /\ servers[ent[e].name] = e
     /\ ent[e].status = "stopped"
     /\ ent[e].logs # <<>> /\ ent[e].logs[Len(ent[e].logs)].tag = "STOP"

\* no start or restart of name n is under way
NoStartInFlight(n) ==
  \A i \in DOMAIN calls : calls[i].name = n => calls[i].op \notin {"start", "restart"}

\* The stop that returned last found or left the entry stopped; no request
\* was issued since, no start or restart of the name is under way and the
\* name still maps to the entry object that stop acted on.
StopReturned ==
  /\ last.op = "stop" /\ last.res \in {"stopped", "already_stopped"}
  /\ servers[last.name] = last.e
  /\ NoStartInFlight(last.name)

\* C5: after stop returned for an existing entry, with no start or restart
\* putting a new entry under the name since, list reports the entry as
\* stopped, whether the process died before the stop, after it, or not at
\* all.
C5_StopThenListReportsStopped ==
  StopReturned => ListedStatus(last.name) = "stopped"

\* stop returned although the process ignored the signal and still lives
C5_Witness ==
  /\ StopReturned /\ last.res = "stopped"
  /\ \E p \in Ids : ent[last.e].h.pid = p /\ os[p] = "alive"

\* C6: a stop issued right after a stop of the same name returned (no new
\* entry under the name since) answers "already stopped", sends no signal,
\* appends no log line, suspends nothing and writes nothing.
C6_SecondStopIsNoOp ==
  [][ ( /\ StopReturned
        /\ ncalls' = ncalls + 1
        /\ last'.op = "stop" /\ last'.name = last.name )
      => ( /\ last'.res = "already_stopped"
           /\ UNCHANGED <<servers, ent, kills, calls, stateFile, os>> ) ]_vars

\* a stop answered "already stopped" for an entry whose newest log line
\* is the [STOP] line of the stop that went before
C6_Witness ==
  /\ last.op = "stop" /\ last.res = "already_stopped"
  /\ ent[last.e].logs # <<>>
  /\ ent[last.e].logs[Len(ent[last.e].logs)].tag = "STOP"

\* a start, a stop or cleanup returns in this step
Returns(ops) ==
  /\ last' # last \/ ncalls' # ncalls
  /\ last'.op \in ops
  /\ last'.res # "pending"

\* C11: every start call and every stop call, whether it succeeds or not
\* (a start whose process exits in the confirmation window included), and
\* cleanup have written the registry to the state file when they return.
C11_EveryReturnPersists ==
  [][ Returns({"start", "stop", "cleanup"})
        => stateFile' = saveState(servers', ent', stateFile) ]_vars

\* The start that returned last reported success; no request was issued
\* since, no other call on the name is suspended and the process it spawned
\* still runs.
StartReturned ==
  /\ last.op = "start" /\ last.res = "started"
  /\ \A i \in DOMAIN calls : calls[i].name # last.name
  /\ PidExists(os, ent[last.e].h.pid)

\* C12: a start whose process is still alive at the end of the confirmation
\* window returns success with the entry running and written to the state
\* file, and a list issued next reports the entry running and counts it as
\* active (one name in the registry: total 1, active 1).
C12_AliveStartIsRunning ==
  StartReturned =>
    /\ servers[last.name] = last.e
    /\ ent[last.e].status = "running"
    /\ ret[last.e] = "ok"
    /\ stateFile.kind = "array"
    /\ \E d \in stateFile.descs :
          d.name = last.name /\ d.pid = ent[last.e].h.pid /\ d.status = "running"
    /\ ListResult(servers, ent, os).servers[last.name] = "running"
    /\ ListResult(servers, ent, os).total = 1
    /\ ListResult(servers, ent, os).active = 1

\* the start returned on its timeout: a list during the window had marked
\* the handle as signalled, so the 500 ms check did not answer
C12_Witness ==
  StartReturned /\ ent[last.e].h.killed /\ ent[last.e].status = "running"

\* the entry object e was rebuilt from the state file
Recovered(E, e) == E[e] # Null /\ E[e].h.kind = "mock"

\* number of lines in a buffer that a child's output or exit wrote
OutLines(buf) ==
  Cardinality({ i \in DOMAIN buf : buf[i].tag \in {"STDOUT", "STDERR", "EXIT"} })

\* a stop request finds a recovered entry that is not stopped and whose
\* process is alive: the signal goes to the persisted pid and is delivered
RecoveredStopSignals ==
  LET e == servers[last'.name]
  IN  ( /\ ncalls' = ncalls + 1 /\ last'.op = "stop"
        /\ e # 0 /\ Recovered(ent, e) /\ ent[e].status # "stopped"
        /\ PidExists(os, ent[e].h.pid) )
      => /\ last'.res = "pending"
         /\ Len(kills'[e]) = Len(kills[e]) + 1
         /\ kills'[e][Len(kills'[e])].sig \in {"SIGTERM", "SIGKILL"}
         /\ kills'[e][Len(kills'[e])].delivered

\* that stop returns: the entry is stopped
RecoveredStopMarks ==
  ( /\ last' # last /\ last'.op = "stop" /\ last'.res = "stopped"
    /\ Recovered(ent, last'.e) )
  => ent'[last'.e].status = "stopped"

\* no step of one supervisor adds an output or exit line to a recovered entry
RecoveredGainsNoOutput ==
  \A e \in Ids :
     (nreloads' = nreloads /\ Recovered(ent, e))
       => OutLines(ent'[e].logs) <= OutLines(ent[e].logs)

\* C14: for an entry recovered from the state file whose process is alive,
\* stop sends the termination signal to the persisted pid and marks the
\* entry stopped, and the buffer of a recovered entry never gains a
\* [STDOUT], [STDERR] or [EXIT] line.
C14_RecoveredEntryStopsSilently ==
  [][ RecoveredStopSignals /\ RecoveredStopMarks /\ RecoveredGainsNoOutput ]_vars

\* a stop of the recovered entry returned after its signal was delivered,
\* and the process has exited since
C14_Witness ==
  /\ last.op = "stop" /\ last.res = "stopped"
  /\ Recovered(ent, last.e) /\ ent[last.e].status = "stopped"
  /\ kills[last.e] # <<>> /\ kills[last.e][1].delivered
  /\ os[ent[last.e].h.pid] = "dead"

\* a configuration is the command, port and cwd of an entry
SameConfig(cfg, sv) ==
  cfg.command = sv.command /\ cfg.port = sv.port /\ cfg.cwd = sv.cwd

\* a restart request finds an entry under its name
RestartStep ==
  ncalls' = ncalls + 1 /\ last'.op = "restart" /\ servers[last'.name] # 0

\* the request sends SIGTERM through the handle of that entry
RestartSignals ==
  LET e == servers[last'.name]
  IN  /\ Len(kills'[e]) = Len(kills[e]) + 1
      /\ kills'[e][Len(kills'[e])].sig = "SIGTERM"

\* the request keeps the command, port and cwd the entry has
RestartSnapshot ==
  LET e == servers[last'.name]
  IN  /\ Len(calls') = Len(calls) + 1
      /\ calls'[Len(calls')].op = "restart"
      /\ calls'[Len(calls')].e = e
      /\ SameConfig(calls'[Len(calls')].cfg, ent[e])

\* a restart spawns only when its stop has ended and the settle delay is
\* over, and the entry it creates has the configuration it kept
RestartSpawn ==
  (last'.op = "restart" /\ nspawn' = nspawn + 1)
    => \E i \in DOMAIN calls :
          /\ calls[i].op = "restart" /\ calls[i].stage = "settle" /\ calls[i].t = 0
          /\ calls[i].name = last'.name
          /\ ~Active(ent[calls[i].e].status)
          /\ servers'[calls[i].name] = nspawn'
          /\ SameConfig(calls[i].cfg, ent'[nspawn'])

\* C15 as stated: restart of an existing entry sends the termination signal
\* to the old handle, completes the stop before the new process is spawned,
\* and the entry it creates has the command, cwd and port the entry had.
C15_RestartSignalsOldHandle ==
  [][ /\ RestartStep => (RestartSignals /\ RestartSnapshot)
      /\ RestartSpawn ]_vars

\* C15: restart of an existing entry that is not stopped sends SIGTERM to
\* the old handle; restart of a stopped entry sends no signal.  In both
\* cases the new process is spawned only after the stop has ended and the
\* settle delay is over, and the entry it creates has the command, cwd and
\* port the entry had when restart was called.
C15_RestartStopsThenSpawns ==
  [][ /\ RestartStep =>
           /\ IF ent[servers[last'.name]].status # "stopped"
              THEN RestartSignals ELSE kills' = kills
           /\ RestartSnapshot
      /\ RestartSpawn ]_vars

\* a restart has replaced an entry started on port 3001, after signalling
\* the old handle, by a running entry of the same configuration
C15_Witness ==
  /\ last.op = "restart" /\ last.res = "started" /\ last.port = 3001
  /\ \E e \in Ids \ {last.e} :
        /\ ent[e] # Null /\ ent[e].name = last.name
        /\ kills[e] # <<>>
        /\ SameConfig(ent[e], ent[last.e])

(***************************************************************************)
(* Properties checked under SpecReg.                                       *)
(***************************************************************************)
RegistryNames(S) == { n \in Names : S[n] # 0 }

\* C3: a start under a name whose entry is starting or running spawns
\* nothing, leaves every entry object, the registry and the state file as
\* they were, suspends nothing and answers with the port of the existing
\* entry.
C3_StartUnderActiveNameIsNoOp ==
  [][ \A n \in Names :
        ( /\ ncalls' = ncalls + 1
          /\ last'.op = "start" /\ last'.name = n
          /\ Active(NameStatus(servers, ent, n)) )
        => ( /\ UNCHANGED <<servers, ent, os, stateFile, nspawn, kills, calls>>
             /\ last'.res = "already_running"
             /\ last'.port = ent[servers[n]].port ) ]_vars

\* a start was refused while the other name had an entry too
C3_Witness ==
  /\ last.op = "start" /\ last.res = "already_running"
  /\ \E m \in Names \ {last.name} : servers[m] # 0

\* the file holds what persisting the registry would write now
Persisted ==
  /\ ~SaveThrows(servers, ent)
  /\ stateFile = saveState(servers, ent, stateFile)

\* every loaded entry is running if its pid exists and stopped if not
LoadedStatuses ==
  \A n \in RegistryNames(servers') :
     ent'[servers'[n]].status =
        IF PidExists(os, ent'[servers'[n]].h.pid) THEN "running" ELSE "stopped"

\* C9 as stated: a supervisor constructed over the persisted registry has
\* the same names, each running if its pid is alive and stopped if not.
C9_RoundTripAllNames ==
  [][ (nreloads' > nreloads /\ Persisted)
        => (RegistryNames(servers') = RegistryNames(servers) /\ LoadedStatuses) ]_vars

\* C9: a supervisor constructed over the persisted registry has the names
\* of the entries that had a pid (an entry whose spawn failed is not
\* written), each running if its pid is alive at load time and stopped if
\* not.
C9_RoundTrip ==
  [][ (nreloads' > nreloads /\ Persisted)
        => ( /\ RegistryNames(servers') =
                  { n \in RegistryNames(servers) : ent[servers[n]].h.pid # 0 }
             /\ LoadedStatuses ) ]_vars

\* a constructed supervisor holds one loaded entry that runs and one whose
\* process died before the load
C9_Witness ==
  /\ nreloads > 0 /\ last.op = "load"
  /\ \E n, m \in Names :
        /\ servers[n] # 0 /\ ent[servers[n]].status = "running"
        /\ servers[m] # 0 /\ ent[servers[m]].status = "stopped"

\* C10 as stated: a constructed supervisor holds no entry whose pid does
\* not exist at load time.
C10_DeadPidDropped ==
  [][ nreloads' > nreloads
        => \A n \in RegistryNames(servers') :
              PidExists(os, ent'[servers'[n]].h.pid) ]_vars

\* C16: restart of a name that has no entry answers "not found", spawns no
\* process and leaves the registry, the entry objects, the suspended calls
\* and the state file as they were.
C16_RestartOfAbsentName ==
  [][ (ncalls' = ncalls + 1 /\ last'.op = "restart" /\ servers[last'.name] = 0)
        => /\ last'.res = "not_found"
           /\ UNCHANGED <<servers, ent, os, calls, stateFile, kills, nspawn>> ]_vars

\* restart of a name without entry was answered while the other name had
\* an entry and the state file held its descriptor
C16_Witness ==
  /\ last.op = "restart" /\ last.res = "not_found"
  /\ servers[last.name] = 0
  /\ \E m \in Names : servers[m] # 0
  /\ stateFile.kind = "array" /\ stateFile.descs # {}

\* the texts an operation can return, by operation
Texts(op) ==
  CASE op = "start"   -> {"already_running", "failed", "started"}
    [] op = "stop"    -> {"not_found", "already_stopped", "stopped"}
    [] op = "restart" -> {"not_found", "already_running", "failed", "started"}
    [] op = "list"    -> {"listed", "error_text"}
    [] op = "check"   -> {"not_found", "open", "not_responding"}
    [] op = "logs"    -> {"not_found", "no_logs", "lines"}
    [] op = "unknown" -> {"error_text"}
    [] OTHER          -> {}

ToolOps == {"start", "stop", "restart", "list", "check", "logs", "unknown"}

\* C17: every operation invoked through executeTool ends in a text result
\* and never throws: a stop, check, logs or restart of an unknown name
\* answers "not found", a failed port probe gives "not responding" inside
\* the status text of the entry, and what a handler throws (list over an
\* Invalid Date, an unknown tool name) comes back as the "Error: ..." text.
C17_AlwaysATextResult ==
  [][ ((last' # last \/ ncalls' # ncalls) /\ last'.op \in ToolOps)
        => /\ last'.res \in Texts(last'.op) \cup {"pending"}
           /\ ( /\ ncalls' = ncalls + 1
                /\ last'.op \in {"stop", "check", "logs", "restart"}
                /\ servers[last'.name] = 0 ) => last'.res = "not_found"
           /\ (ncalls' = ncalls + 1 /\ last'.op = "list")
                => (last'.res = "error_text") = ListThrows(servers, ent)
           /\ (last'.op = "check" /\ last'.res = "not_responding")
                => /\ last'.e # 0 /\ ent[last'.e] # Null
                   /\ last'.port = ent[last'.e].port ]_vars

\* list threw on the Invalid Date of a loaded entry and returned the error
\* text
C17_Witness ==
  /\ last.op = "list" /\ last.res = "error_text"
  /\ \E n \in Names : servers[n] # 0 /\ InvalidDate(ent[servers[n]])

\* the supervisor was constructed and has handled no request since
JustLoaded == last.op = "load" /\ calls = <<>> /\ imm.q = <<>>

\* C19: construction ends in a supervisor whatever the state file holds; over
\* an absent file, a text JSON.parse rejects or JSON that is no array the
\* registry is empty and no entry object exists, as with no prior state.
C19_UnreadableFileLoadsNothing ==
  (JustLoaded /\ stateFile.kind # "array")
    => /\ RegistryNames(servers) = {}
       /\ \A i \in Ids : ent[i] = Null
       /\ \A i \in Ids : kills[i] = <<>> /\ ret[i] = "none"

\* a supervisor was constructed over a text that does not parse but holds
\* the descriptor of a live process, after an earlier one had handled a
\* request
C19_Witness ==
  /\ JustLoaded /\ nreloads > 0 /\ ncalls > 0
  /\ stateFile.kind = "corrupt"
  /\ \E d \in stateFile.descs : PidExists(os, d.pid)

\* an entry object was built from a descriptor of another version
OldShape(sv) == sv # Null /\ sv.h.kind = "mock" /\ (sv.h.pid = 0 \/ InvalidDate(sv))

\* C20: a descriptor that lacks pid or startTime is treated as absent state:
\* it creates no registry entry.
C20_OldShapeCreatesNoEntry ==
  JustLoaded => \A n \in RegistryNames(servers) : ~OldShape(ent[servers[n]])

\* a list request is handled in this step
ListStep == ncalls' = ncalls + 1 /\ last'.op = "list"

\* the entry under name n is stale: a running or starting status over a
\* handle that reports the process dead
Stale(S, E, O, n) ==
  S[n] # 0 /\ Active(E[S[n]].status) /\ ~isProcessAlive(E[S[n]].h, O)

\* C13: when list returns, every entry that was stale is stopped and the
\* last line of its buffer is the [STATUS] line, and every other entry has
\* the status it had.
C13_ListLeavesNoStaleEntry ==
  [][ ListStep =>
        \A n \in RegistryNames(servers) :
           LET e == servers[n]
           IN  IF Stale(servers, ent, os, n)
               THEN /\ ent'[e].status = "stopped"
                    /\ ent'[e].logs # <<>>
                    /\ ent'[e].logs[Len(ent'[e].logs)].tag = "STATUS"
               ELSE ent'[e].status = ent[e].status ]_vars

\* the cleanup pass runs in this step
CleanupStep == ncalls' = ncalls + 1 /\ last'.op = "cleanup"

\* C21: the cleanup pass sends SIGTERM to every entry that is starting or
\* running, no signal to an entry that is stopped or in error, and then the
\* state file holds the registry.
C21_CleanupSignalsActiveAndSaves ==
  [][ CleanupStep =>
        /\ \A n \in RegistryNames(servers) :
              LET e == servers[n]
              IN  IF Active(ent[e].status)
                  THEN /\ Len(kills'[e]) = Len(kills[e]) + 1
                       /\ kills'[e][Len(kills'[e])].sig = "SIGTERM"
                  ELSE kills'[e] = kills[e]
        /\ stateFile'.kind = "array"
        /\ stateFile'.descs =
              { Serialize(ent'[servers[n]]) :
                  n \in { m \in RegistryNames(servers) : ent[servers[m]].h.pid # 0 } }
    ]_vars

(***************************************************************************)
(* Properties checked under SpecLive.                                      *)
(***************************************************************************)
\* a start, stop or restart call is suspended
Busy == \E i \in DOMAIN calls : calls[i].op \in {"start", "stop", "restart"}

\* the time a suspended call still waits for its timer, in ticks
TimersBounded ==
  \A i \in DOMAIN calls :
     /\ calls[i].stage = "start"  => calls[i].t \in 0..TimeoutTicks
     /\ calls[i].stage = "stop"   => calls[i].t \in 0..GraceTicks
     /\ calls[i].stage = "settle" => calls[i].t \in 0..SettleTicks

\* C18: no start, stop or restart call stays suspended for ever, whatever
\* the child does: the wait for each timer is bounded by its duration and
\* again and again no such call is pending.
C18_EveryCallReturns == [](TimersBounded) /\ []<>(~Busy)

\* a restart has returned after its grace period, its settle delay and the
\* start timeout, over a process that ignored the signal
C18_Witness ==
  /\ ~Busy /\ last.op = "restart" /\ last.res = "started"
  /\ \E e \in Ids \ {last.e} :
        kills[e] # <<>> /\ kills[e][1].delivered /\ os[e] = "alive"

\* the process of entry object e, spawned by this supervisor, has exited
\* after the start that created e returned `running`
ExitedAfterStart(e) ==
  /\ ent[e] # Null /\ ent[e].h.kind = "live"
  /\ ret[e] = "ok" /\ os[e] = "dead"

\* C39: when the process of an entry with a spawned handle exits after its
\* start returned `running`, the entry's status eventually is `stopped`,
\* whether or not any request arrives: the exit observer's queued callback
\* runs and sets it.
C39_ExitLeadsToStopped ==
  \A e \in Ids : ExitedAfterStart(e) ~> (ent[e].status = "stopped")

\* the exit observer alone has marked the entry: no signal was ever sent
\* through it and no request followed its start
C39_Witness ==
  \E e \in Ids :
     /\ ExitedAfterStart(e) /\ ent[e].status = "stopped"
     /\ kills[e] = <<>> /\ last.op = "start" /\ last.e = e

\* a stop call takes its first step on entry e: found and not stopped
StopBegins(e) ==
  /\ ncalls' = ncalls + 1
  /\ last'.op = "stop" /\ last'.res = "pending" /\ last'.e = e

\* the grace period of the stop call at position i ends in this step
StopEnds(i) ==
  /\ i \in DOMAIN calls
  /\ calls[i].op = "stop" /\ calls[i].stage = "stop" /\ calls[i].t = 0
  /\ calls' = RemoveAt(calls, i)
  /\ last'.op = "stop" /\ last'.res = "stopped"

\* the first step sends one signal to the entry's handle and leaves its
\* status and its buffer alone
StopSendsOneSignal ==
  \A e \in Ids :
     StopBegins(e) =>
        LET c == calls'[Len(calls')]
        IN  /\ c.sig \in {"SIGTERM", "SIGKILL"}
            /\ Len(kills'[e]) = Len(kills[e]) + 1
            /\ kills'[e][Len(kills'[e])].sig = c.sig
            /\ \A o \in Ids \ {e} : kills'[o] = kills[o]
            /\ ent'[e].status = ent[e].status
            /\ ent'[e].logs = ent[e].logs

\* the end of the grace period marks the entry, adds the [STOP] line to
\* the entry's own buffer and writes the file; the entry is still the
\* one registered under the name
StopMarksAfterGrace ==
  \A i \in DOMAIN calls :
     StopEnds(i) =>
        LET c == calls[i]
        IN  /\ kills' = kills
            /\ ent'[c.e].status = "stopped"
            /\ Len(ent'[c.e].logs) > 0
            /\ LET l == ent'[c.e].logs[Len(ent'[c.e].logs)]
               IN  l.tag = "STOP" /\ l.info = c.sig
            /\ \A o \in Ids \ {c.e} : ent'[o] = ent[o]
            /\ stateFile'.kind = "array"
            /\ stateFile'.descs =
                  { Serialize(ent'[servers[n]]) :
                      n \in { m \in Names : servers[m] # 0 /\ ent'[servers[m]].h.pid # 0 } }
            /\ servers'[c.name] = c.e

\* C30: stop of an entry that is not stopped sends exactly one signal
\* to the entry's handle, and only when the grace period is over it marks the
\* entry stopped, appends the [STOP] line naming the signal to that entry's
\* buffer and writes the state file; the entry stays registered.
C30_StopSignalsThenMarks ==
  [][StopSendsOneSignal /\ StopMarksAfterGrace]_vars

\* the processes this supervisor spawned under name n that are alive
AliveUnder(n) ==
  { e \in Ids : /\ ent[e] # Null /\ ent[e].name = n
                /\ ent[e].h.kind = "live" /\ ent[e].h.pid # 0
                /\ os[e] = "alive" }

\* C32: at any time at most one process spawned under a name is alive, and
\* every spawned process that is alive is the one the registry entry of its
\* name refers to.
C32_OneAliveProcessPerName ==
  \A n \in Names :
     /\ Cardinality(AliveUnder(n)) <= 1
     /\ \A e \in AliveUnder(n) : servers[n] = e

\* the lines this step appended to the buffer of entry e
NewLines(e) ==
  IF ent[e] = Null THEN <<>>
  ELSE SubSeq(ent'[e].logs, Len(ent[e].logs) + 1, Len(ent'[e].logs))

\* the deferred observers run in this step
ObserversRun == imm.q # <<>> /\ imm'.q = <<>>

\* line l comes from an observer of e's own process or from an operation
\* that acts on e
OwnLine(e, l) ==
  CASE l.tag \in {"STDOUT", "STDERR"} ->
         ObserversRun /\ \E k \in DOMAIN imm.q : imm.q[k].e = e /\ imm.q[k].kind = "data"
    [] l.tag = "ERROR" ->
         ObserversRun /\ \E k \in DOMAIN imm.q : imm.q[k].e = e /\ imm.q[k].kind = "error"
    [] l.tag = "EXIT" ->
         ObserversRun /\ \E k \in DOMAIN imm.q : imm.q[k].e = e /\ imm.q[k].kind = "exit"
    [] l.tag = "STOP" ->
         \E i \in DOMAIN calls : calls[i].stage = "stop" /\ calls[i].t = 0 /\ calls[i].e = e
    [] OTHER -> servers[ent[e].name] = e

\* something of e's own can have changed e's status in this step
OwnEvent(e) ==
  \/ ObserversRun /\ \E k \in DOMAIN imm.q : imm.q[k].e = e
  \/ \E i \in DOMAIN calls : calls[i].e = e
  \/ last'.op \in {"list", "cleanup"} /\ servers[ent[e].name] = e
  \/ os'[e] # os[e]

\* C33: a line enters an entry's buffer only from the observers of that
\* entry's own process or from an operation acting on that entry, and only
\* such events change its status: lines and events of an earlier entry of
\* the name never reach the entry that replaced it.
C33_NoForeignLines ==
  [][ \A e \in Ids :
        (ent[e] # Null /\ ent'[e] # Null) =>
           /\ \A k \in DOMAIN NewLines(e) : OwnLine(e, NewLines(e)[k])
           /\ ent'[e].status # ent[e].status => OwnEvent(e)
    ]_vars

(***************************************************************************)
(* Properties checked under SpecLines.                                     *)
(***************************************************************************)
\* C22: every line of every buffer, whatever appended it, carries at most
\* maxLogLength characters of text, with the truncation marker exactly when
\* its text was cut, and no buffer holds more than maxLogLines lines.
C22_EveryAppendIsBounded ==
  \A e \in Ids :
     ent[e] # Null =>
        /\ Len(ent[e].logs) <= maxLogLines
        /\ \A i \in DOMAIN ent[e].logs :
              /\ ent[e].logs[i].len <= maxLogLength
              /\ ent[e].logs[i].marker => ent[e].logs[i].len = maxLogLength

(***************************************************************************)
(* Properties checked under SpecBuf.                                       *)
(***************************************************************************)
Min(a, b) == IF a < b THEN a ELSE b

\* the number of chunks appended so far: those that arrived less those whose
\* callback is still queued
Appended == nchunks - Len(imm.q)

\* C7: the buffer of an entry never holds more than maxLogLines lines; after
\* m appends it holds the last min(m, maxLogLines) appended lines, oldest
\* first.
C7_BufferKeepsNewest ==
  \A e \in Ids :
     ent[e] # Null =>
        LET b == ent[e].logs
        IN  /\ Len(b) <= maxLogLines
            /\ Len(b) = Min(Appended, maxLogLines)
            /\ \A i \in 1..Len(b) :
                  /\ b[i].len = Appended - Len(b) + i
                  /\ b[i].tag = ChunkTag(b[i].len)

\* every chunk has been appended, BufExtra of them beyond the capacity
C7_Witness ==
  /\ nchunks = maxLogLines + BufExtra /\ imm.q = <<>>
  /\ Len(ent[1].logs) = maxLogLines
  /\ ent[1].logs[1].len = BufExtra + 1

(***************************************************************************)
(* Properties checked under SpecRead.  A chunk's length is its number in   *)
(* the order of emission.                                                  *)
(***************************************************************************)
\* the lines of one stream, as the buffer holds them
OfStream(buf, tag) == SelectSeq(buf, LAMBDA l : l.tag = tag)

\* each line was emitted after the one before it
Increasing(l) == \A i \in 1..(Len(l) - 1) : l[i].len < l[i + 1].len

\* C31: whatever the interleaving of the deferred appends with each other
\* and with logs, check and list, the chunks of one stream that are in the
\* entry's buffer are in the order of their emission, and the buffer a
\* reader finds never holds more than maxLogLines lines.
C31_StreamOrderSurvivesReads ==
  \A e \in Ids :
     ent[e] # Null =>
        /\ Len(ent[e].logs) <= maxLogLines
        /\ Increasing(OfStream(ent[e].logs, "STDOUT"))
        /\ Increasing(OfStream(ent[e].logs, "STDERR"))

\* a read finds a full buffer that has lost its oldest lines while
\* further chunks wait for their append
C31_Witness ==
  /\ last.op \in {"logs", "check", "list"}
  /\ imm.q # <<>>
  /\ \E e \in Ids :
        /\ ent[e] # Null
        /\ Len(ent[e].logs) = maxLogLines
        /\ ent[e].logs[1].len > 1
        /\ Len(OfStream(ent[e].logs, "STDOUT")) > 1
        /\ Len(OfStream(ent[e].logs, "STDERR")) > 1

(***************************************************************************)
(* Properties of the log store and its routes, checked under SpecLogs.     *)
(***************************************************************************)
\* every entry the store holds, group after group
RECURSIVE Stored(_)
Stored(G) == IF G = <<>> THEN <<>> ELSE Head(G).logs \o Stored(Tail(G))

\* the ingestion route hands its body to addLog in this step
AddStep ==
  /\ logManager'.logIdCounter = logManager.logIdCounter + 1
  /\ last'.op = "post"

\* getLogs(f) is called on the store in this step
GetStep(f) == last'.op = "getLogs" /\ last'.arg = f /\ logManager' = logManager

\* the port and the project the claim gives an added entry
ClaimedPort(b) ==
  IF b.port # <<>> THEN b.port
  ELSE IF UrlPort(b.url) # <<>> THEN UrlPort(b.url) ELSE <<"unknown">>

ClaimedProject(b) ==
  IF b.project # <<>> THEN b.project
  ELSE IF b.port # <<>> \/ UrlPort(b.url) # <<>>
       THEN <<"localhost:">> \o ClaimedPort(b)
       ELSE <<"unknown">>

JustPort3000 ==
  [port |-> <<"3000">>, project |-> <<>>, level |-> None, timeRange |-> None,
   limit |-> None]

\* C23: an added entry is stored with the supplied port and project; an
\* absent port is the digits of the first localhost:<digits> in the url, else
\* unknown; an absent project is localhost:<port> when a port was supplied
\* or extracted, else unknown.  And when the store holds just one entry,
\* added without port and project from http://localhost:3000/x, the read
\* with port 3000 returns exactly it, with project localhost:3000.
C23_AddDerivesPortAndProject ==
  [][ /\ AddStep =>
           LET b == last'.arg
               S == Stored(logManager'.logs)
           IN  \E i \in DOMAIN S :
                  /\ S[i].id = logManager.logIdCounter
                  /\ S[i].port = ClaimedPort(b)
                  /\ S[i].project = ClaimedProject(b)
      /\ ( /\ GetStep(JustPort3000)
           /\ Len(Stored(logManager.logs)) = 1
           /\ LET e == Stored(logManager.logs)[1]
              IN  e.url = LocalUrl /\ e.port = <<"3000">> /\ e.project = <<"localhost:", "3000">> )
          => last'.out = Stored(logManager.logs)
    ]_vars

\* the elements of a sequence
Range(l) == { l[i] : i \in DOMAIN l }

\* entry e satisfies every predicate that filter f carries
Matches(e, f) ==
  /\ f.port = <<>> \/ e.port = f.port
  /\ f.project = <<>> \/ e.project = f.project
  /\ \/ f.level = None
     \/ f.level[1] = <<>>
     \/ \E i \in DOMAIN f.level[1] : f.level[1][i] = e.level
  /\ \/ f.timeRange = None
     \/ (f.timeRange[1].start <= e.timestamp /\ e.timestamp <= f.timeRange[1].end)

\* a read of the store without limit happens in this step
UnlimitedGet ==
  /\ last'.op = "getLogs" /\ logManager' = logManager
  /\ last'.arg.limit = None

\* C24: a read without limit returns exactly the stored entries that satisfy
\* every predicate the filter carries (port, project, level, time range),
\* each once, whatever characters the port and the project contain.
C24_GetReturnsExactlyTheMatches ==
  [][ UnlimitedGet =>
        /\ Range(last'.out) =
              { e \in Range(Stored(logManager.logs)) : Matches(e, last'.arg) }
        /\ Len(last'.out) = Cardinality(Range(last'.out))
    ]_vars

\* a read of the store happens in this step
AnyGet == last'.op = "getLogs" /\ logManager' = logManager

\* newest first
Descending(l) ==
  \A i, j \in DOMAIN l : i < j => l[i].timestamp >= l[j].timestamp

\* the first k elements of l, all of l when it has fewer
FirstOf(l, k) == SubSeq(l, 1, IF k < Len(l) THEN k ELSE Len(l))

\* C25: a read returns its entries newest first, and with a limit L, for
\* every L >= 0, it returns the first L entries of the order the same read
\* without limit returns, so never more than L.
C25_GetSortsAndLimits ==
  [][ AnyGet =>
        LET f == last'.arg
        IN  /\ Descending(last'.out)
            /\ f.limit # None =>
                  /\ last'.out = FirstOf(getLogs(logManager.logs, [f EXCEPT !.limit = None]),
                                         f.limit[1])
                  /\ Len(last'.out) <= f.limit[1]
    ]_vars

\* get_browser_logs answers a call that names no limit in this step
ToolGetWithoutLimit ==
  /\ last'.op = "get_browser_logs"
  /\ last'.arg.filter.limit = None
  /\ last' # last

\* C26: get_browser_logs called without a limit returns at most the
\* documented default number of entries.
C26_ToolAppliesDefaultLimit ==
  [][ ToolGetWithoutLimit => Len(last'.out) <= DefaultLimit ]_vars

\* two entries share a group exactly when they share port and project
PartitionedByPair ==
  LET G == logManager.logs
  IN  \A i, j \in DOMAIN G :
         \A a \in DOMAIN G[i].logs, b \in DOMAIN G[j].logs :
            (i = j) <=> /\ G[i].logs[a].port = G[j].logs[b].port
                        /\ G[i].logs[a].project = G[j].logs[b].project

\* ids are handed out in the order of the adds
InInsertionOrder ==
  \A i \in DOMAIN logManager.logs :
     \A a, b \in DOMAIN logManager.logs[i].logs :
        a < b => logManager.logs[i].logs[a].id < logManager.logs[i].logs[b].id

IsSuffix(t, l) == \E k \in 0..Len(l) : t = SubSeq(l, k + 1, Len(l))

\* an add leaves of each group a suffix of what it held, the new entry
\* included in its own group
EvictsOldestFirst ==
  logManager'.logIdCounter = logManager.logIdCounter + 1 =>
     \A i \in DOMAIN logManager.logs :
        \E j \in DOMAIN logManager'.logs :
           LET old == logManager.logs[i].logs
               new == logManager'.logs[j].logs
           IN  /\ logManager'.logs[j].key = logManager.logs[i].key
               /\ IF new # <<>> /\ new[Len(new)].id = logManager.logIdCounter
                  THEN IsSuffix(new, Append(old, new[Len(new)]))
                  ELSE IsSuffix(new, old)

\* C27: in every reachable state two stored entries are in the same group
\* if and only if they have the same port and the same project; a group
\* holds its entries in insertion order, and eviction removes only a prefix
\* of a group.
C27_GroupsPartitionByPortAndProject ==
  /\ [](PartitionedByPair /\ InInsertionOrder)
  /\ [][EvictsOldestFirst]_vars

\* clear(port, project) is called on the store in this step
ClearStep == last'.op = "clear_browser_logs" /\ last' # last

\* group g holds an entry of the given port or of the given project
Named(g, port, project) ==
  \E i \in DOMAIN g.logs :
     \/ (port # <<>> /\ g.logs[i].port = port)
     \/ (project # <<>> /\ g.logs[i].project = project)

\* C28: clear without arguments removes every group; with a port or a
\* project it removes exactly the groups whose entries have that port or
\* that project, whatever characters they contain, and leaves every other
\* group as it was.
C28_ClearRemovesExactlyTheNamed ==
  [][ ClearStep =>
        LET port    == last'.arg.port
            project == last'.arg.project
        IN  logManager'.logs =
              IF port = <<>> /\ project = <<>> THEN <<>>
              ELSE SelectSeq(logManager.logs, LAMBDA g : ~Named(g, port, project))
    ]_vars

\* the ingestion route answers a submission in this step
PostStep == last'.op = "post" /\ last' # last

\* the submission was refused and nothing of the store changed
Refused == last'.res = "400" /\ logManager' = logManager

\* the submission was stored under the next id
StoredNext ==
  /\ last'.res = "200"
  /\ logManager'.logIdCounter = logManager.logIdCounter + 1
  /\ \E i \in DOMAIN Stored(logManager'.logs) :
        Stored(logManager'.logs)[i].id = logManager.logIdCounter

\* C29: a submission is refused with 400, the store and the id counter
\* untouched, if and only if one of timestamp, level, message, url is
\* missing from it; a submission that carries all four is stored.
C29_RejectsExactlyTheIncomplete ==
  [][ PostStep =>
        LET incomplete == last'.arg.missing \cap Required # {}
        IN  /\ Refused <=> incomplete
            /\ ~incomplete => StoredNext
    ]_vars

\* get_browser_logs answers a query with clear = true from the log server
\* in this step
ClearingQuery ==
  /\ last'.op = "get_browser_logs" /\ last'.res = "logs"
  /\ last'.arg.clear
  /\ last' # last \/ logManager' # logManager

\* C36: a get_browser_logs query with clear = true removes from the store
\* only entries it returned; an entry the level, time-range or limit
\* predicate kept out of the result is still stored afterwards.
C36_ClearRemovesOnlyReturned ==
  [][ ClearingQuery =>
        Range(Stored(logManager.logs)) \ Range(Stored(logManager'.logs))
           \subseteq Range(last'.out)
    ]_vars

(***************************************************************************)
(* Properties of the log store, checked under SpecStore.                   *)
(***************************************************************************)
\* C8 as stated: the store never holds more than maxTotalLogs entries,
\* however the entries are spread over the groups.
C8_TotalNeverAboveCap == TotalLogs(logManager.logs) <= maxTotalLogs

\* addLog runs in this step
StoreAdd == logManager'.logIdCounter = logManager.logIdCounter + 1

\* the group the added entry went to, before the add; <<>> when it is new
TargetBefore ==
  LET G   == logManager'.logs
      new == { j \in DOMAIN G : \E i \in DOMAIN G[j].logs :
                                   G[j].logs[i].id = logManager.logIdCounter }
      old == { i \in DOMAIN logManager.logs :
                 \E j \in new : logManager.logs[i].key = G[j].key }
  IN  IF old = {} THEN <<>> ELSE logManager.logs[CHOOSE i \in old : TRUE].logs

\* the total once the per-group cap has been applied to the target group
AfterGroupCap ==
  IF Len(TargetBefore) >= maxLogsPerPort THEN TotalLogs(logManager.logs)
  ELSE TotalLogs(logManager.logs) + 1

\* C34: an add removes nothing unless a cap is exceeded, and when the
\* global cap is exceeded by E entries it removes exactly E: after the add
\* the total is the smaller of the total it would have without the global
\* cap and the global cap.
C34_EvictionRemovesExactlyTheExcess ==
  [][ StoreAdd => TotalLogs(logManager'.logs) = Min(AfterGroupCap, maxTotalLogs) ]_vars

\* the entry the add returned is the last one of a group
ReturnedIsNewest ==
  \E j \in DOMAIN logManager'.logs :
     LET l == logManager'.logs[j].logs
     IN  l # <<>> /\ l[Len(l)].id = logManager.logIdCounter

\* every id in the store was handed out before
IdsBelowCounter ==
  \A j \in DOMAIN logManager.logs :
     \A i \in DOMAIN logManager.logs[j].logs :
        logManager.logs[j].logs[i].id < logManager.logIdCounter

\* C35: right after an add the entry it returned is the newest of its
\* group, whatever the store held and whichever cap the add reached, and
\* its id is new: ids come from a counter that every add advances and
\* nothing, clear included, ever sets back.
C35_ReturnedEntryIsNewestAndFresh ==
  /\ [](IdsBelowCounter)
  /\ [][ /\ StoreAdd => ReturnedIsNewest
         /\ logManager'.logIdCounter >= logManager.logIdCounter
         /\ logManager'.logIdCounter = logManager.logIdCounter
              \/ logManager'.logIdCounter = logManager.logIdCounter + 1
     ]_vars

\* the last add exceeded the global cap and older entries of other groups
\* were evicted; the entry it added is kept
C35_Witness ==
  /\ logManager.logIdCounter = StoreAdds
  /\ Len(logManager.logs) = 3
  /\ TotalLogs(logManager.logs) = 3
  /\ logManager.logs[1].logs[1].id = 1
  /\ logManager.logs[3].logs[1].id = StoreAdds - 1

(***************************************************************************)
(* Properties of the extension's retry buffer, checked under SpecExt.      *)
(***************************************************************************)
\* the logs that wait in the buffer or in a batch being sent
Waiting ==
  Range(ext.logBuffer) \cup
  UNION { Range(ext.sending[i]) : i \in DOMAIN ext.sending }

\* C37: every log the worker took out of its buffer is delivered by a
\* successful POST or is back in the buffer (or still in the batch being
\* sent); none is discarded while the server is marked offline or a POST
\* fails.
C37_NoLogIsDiscarded ==
  \A log \in 1..ext.received : log \in Waiting \cup ext.delivered

(***************************************************************************)
(* Properties of recovered entries, checked under SpecReuse.               *)
(***************************************************************************)
\* the pid the handle of object e names belongs to an unrelated process
ForeignPid(E, e) ==
  /\ E[e] # Null /\ E[e].h.kind = "mock"
  /\ E[e].h.pid \in Ids /\ os[E[e].h.pid] = "reused"

\* a new supervisor has just run loadState
LoadStep == nreloads' = nreloads + 1

\* loadState does not mark an entry running whose pid is an unrelated process's
LoadLeavesForeignPidStopped ==
  LoadStep =>
    \A n \in Names :
       servers'[n] # 0 /\ ForeignPid(ent', servers'[n])
          => ent'[servers'[n]].status # "running"

\* no signal sent through a recovered entry reaches an unrelated process
NoSignalToForeignPid ==
  \A e \in Ids :
     Len(kills'[e]) > Len(kills[e]) /\ ForeignPid(ent, e)
        => ~kills'[e][Len(kills'[e])].delivered

\* C38: a recovered entry stands only for the process the supervisor
\* spawned: when that process is gone and its pid belongs to an unrelated
\* process, loadState does not mark the entry running (whatever status the
\* file recorded), and stop and cleanup do not signal that process.
C38_RecoveredEntryIsOwnProcess ==
  [][ LoadLeavesForeignPidStopped /\ NoSignalToForeignPid ]_vars

(***************************************************************************)
(* Properties of restart, checked under SpecEnv.                           *)
(***************************************************************************)
\* the restart suspended at position i spawns its new process in this step
RestartSpawns(i) ==
  /\ calls[i].op = "restart" /\ calls[i].stage = "settle" /\ calls[i].t = 0
  /\ nspawn' = nspawn + 1
  /\ last'.op = "restart" /\ last'.e = nspawn'

\* C40: the process a restart spawns gets the environment overrides that
\* the start call which created the restarted entry gave to its process.
C40_RestartKeepsEnv ==
  [][ \A i \in DOMAIN calls :
         RestartSpawns(i) => spawnEnv'[nspawn'] = spawnEnv[calls[i].e] ]_vars

=============================================================================
